---------------------------- MODULE Spec2Model ----------------------------
(***************************************************************************)
(* Model of the KaTeX -> MathJax conversion engine of the Obsidian plugin  *)
(* (src/unnamed/part_000, the current main.ts of the plugin).              *)
(*                                                                         *)
(* Text is a sequence of characters; a character is a one-character        *)
(* string.  Characters that cannot be written in a TLA+ string literal     *)
(* are written by code point, "U+2022".  Positions are 1-based (the        *)
(* source is 0-based); a position one past the end is Len(s) + 1.          *)
(***************************************************************************)
EXTENDS Integers, Sequences, FiniteSets, TLC

(***************************************************************************)
(* Characters and character classes of the JavaScript regular expressions. *)
(***************************************************************************)
Str(s) == [i \in 1..Len(s) |-> SubSeq(s, i, i)]

BT == SubSeq("`'", 1, 1)         \* the backtick character
BS == "\\"                        \* the backslash character
LF == "\n"
CR == "\r"
TAB == "\t"
SP == " "
DOLLAR == "$"
BULLET == "U+2022"
ENDASH == "U+2013"
EMDASH == "U+2014"

LowerLetters == {"a","b","c","d","e","f","g","h","i","j","k","l","m",
                 "n","o","p","q","r","s","t","u","v","w","x","y","z"}
UpperLetters == {"A","B","C","D","E","F","G","H","I","J","K","L","M",
                 "N","O","P","Q","R","S","T","U","V","W","X","Y","Z"}
Letters == LowerLetters \cup UpperLetters
Digits == {"0","1","2","3","4","5","6","7","8","9"}
HexDigits == Digits \cup {"A","B","C","D","E","F"}
\* \w
WordChars == Letters \cup Digits \cup {"_"}
\* line terminators: what "." does not match, and where ^ and $ match under /m
LineTerminators == {"\n", "\r", "U+2028", "U+2029"}
\* \s, and what String.prototype.trim removes
WhiteSpace == {" ", "\t", "\n", "\r", "\f", "U+000B", "U+00A0", "U+1680",
               "U+2000", "U+2001", "U+2002", "U+2003", "U+2004", "U+2005",
               "U+2006", "U+2007", "U+2008", "U+2009", "U+200A",
               "U+2028", "U+2029", "U+202F", "U+205F", "U+3000", "U+FEFF"}
\* [ \t]
Blanks == {" ", "\t"}
\* [∀-⋿]
MathOperators == {"U+22" \o a \o b : a \in HexDigits, b \in HexDigits}

ToLower(c) ==
  CASE c = "A" -> "a" [] c = "B" -> "b" [] c = "C" -> "c" [] c = "D" -> "d"
    [] c = "E" -> "e" [] c = "F" -> "f" [] c = "G" -> "g" [] c = "H" -> "h"
    [] c = "I" -> "i" [] c = "J" -> "j" [] c = "K" -> "k" [] c = "L" -> "l"
    [] c = "M" -> "m" [] c = "N" -> "n" [] c = "O" -> "o" [] c = "P" -> "p"
    [] c = "Q" -> "q" [] c = "R" -> "r" [] c = "S" -> "s" [] c = "T" -> "t"
    [] c = "U" -> "u" [] c = "V" -> "v" [] c = "W" -> "w" [] c = "X" -> "x"
    [] c = "Y" -> "y" [] c = "Z" -> "z" [] OTHER -> c

(***************************************************************************)
(* String primitives.                                                      *)
(***************************************************************************)
Min(S) == CHOOSE x \in S : \A y \in S : x <= y
Max(S) == CHOOSE x \in S : \A y \in S : x >= y

\* s.slice(a-1, b): the characters at positions a..b ("" when a > b)
Slice(s, a, b) == IF a > b THEN << >> ELSE SubSeq(s, a, b)
\* s.slice(a-1)
From(s, a) == Slice(s, a, Len(s))

\* the literal lit stands in s at position i
At(s, i, lit) ==
  /\ i >= 1
  /\ i + Len(lit) - 1 <= Len(s)
  /\ \A k \in 1..Len(lit) : s[i + k - 1] = lit[k]

\* the same, ignoring case (the /i flag on an ASCII literal)
AtNoCase(s, i, lit) ==
  /\ i >= 1
  /\ i + Len(lit) - 1 <= Len(s)
  /\ \A k \in 1..Len(lit) : ToLower(s[i + k - 1]) = ToLower(lit[k])

\* first position >= i where lit stands, 0 when there is none
IndexFrom(s, lit, i) ==
  LET hits == {k \in i..(Len(s) - Len(lit) + 1) : At(s, k, lit)}
  IN IF hits = {} THEN 0 ELSE Min(hits)

\* lit occurs somewhere in s
Contains(s, lit) == \E k \in 1..(Len(s) - Len(lit) + 1) : At(s, k, lit)

\* some character of s is in the class C
HasChar(s, C) == \E k \in 1..Len(s) : s[k] \in C

\* every character at positions a..b is in the class C
AllIn(s, a, b, C) == \A k \in a..b : s[k] \in C
NoneIn(s, a, b, C) == \A k \in a..b : s[k] \notin C

\* the position after the longest run of class-C characters starting at i
\* (a greedy C* that is followed by a character outside C)
SkipClass(s, i, C) ==
  LET stops == {k \in i..Len(s) : s[k] \notin C}
  IN IF stops = {} THEN Len(s) + 1 ELSE Min(stops)

\* the first position >= i whose character is in the class C, Len(s) + 1 if none
SkipUntil(s, i, C) ==
  LET stops == {k \in i..Len(s) : s[k] \in C}
  IN IF stops = {} THEN Len(s) + 1 ELSE Min(stops)

\* \b at position i: between s[i-1] and s[i] exactly one is a word character
WordBoundary(s, i) ==
  LET before == i >= 2 /\ i - 1 <= Len(s) /\ s[i - 1] \in WordChars
      after  == i >= 1 /\ i <= Len(s) /\ s[i] \in WordChars
  IN before # after

\* String.prototype.trim / trimEnd / trimStart
trimEnd(s) ==
  LET keep == {k \in 1..Len(s) : s[k] \notin WhiteSpace}
  IN IF keep = {} THEN << >> ELSE SubSeq(s, 1, Max(keep))
trimStart(s) ==
  LET keep == {k \in 1..Len(s) : s[k] \notin WhiteSpace}
  IN IF keep = {} THEN << >> ELSE SubSeq(s, Min(keep), Len(s))
trim(s) == trimStart(trimEnd(s))

\* Array.prototype.join("") and join(sep)
RECURSIVE Concat(_)
Concat(ss) == IF ss = << >> THEN << >> ELSE Head(ss) \o Concat(Tail(ss))
RECURSIVE Join(_, _)
Join(ss, sep) ==
  IF ss = << >> THEN << >>
  ELSE IF Len(ss) = 1 THEN ss[1]
  ELSE ss[1] \o sep \o Join(Tail(ss), sep)

\* /\bword\b/ (or /i): word stands at i between two word boundaries
WordAt(s, i, w, nocase) ==
  /\ IF nocase THEN AtNoCase(s, i, w) ELSE At(s, i, w)
  /\ WordBoundary(s, i)
  /\ WordBoundary(s, i + Len(w))
HasWord(s, words, nocase) ==
  \E w \in words : \E i \in 1..Len(s) : WordAt(s, i, w, nocase)


(***************************************************************************)
(* ConvertOptions and DEFAULT_SETTINGS.                                    *)
(***************************************************************************)
ConvertOptions ==
  [wrapMatrixEnvsInDisplayMath : BOOLEAN,
   plainParensAsDelimiters     : BOOLEAN,
   plainBracketsAsDelimiters   : BOOLEAN,
   convertBareInlineLatex      : BOOLEAN,
   wrapBareMathSingleLines     : BOOLEAN]

DEFAULT_SETTINGS ==
  [wrapMatrixEnvsInDisplayMath |-> TRUE,
   plainParensAsDelimiters     |-> FALSE,
   plainBracketsAsDelimiters   |-> FALSE,
   convertBareInlineLatex      |-> FALSE,
   wrapBareMathSingleLines     |-> FALSE]

(***************************************************************************)
(* isLatexLike: the LaTeX-ish detector shared by both guards.              *)
(***************************************************************************)
ArithOps == {"+", "-", "*", "/"}
AlphaNum == Letters \cup Digits
\* [≤≥≈≃≅≡≠→↦↔⇒⇔∝∞∑∫√∂∇∈∉⊂⊆⊃⊇∪∩∀∃]
MathSymbols ==
  {"U+2264", "U+2265", "U+2248", "U+2243", "U+2245", "U+2261", "U+2260",
   "U+2192", "U+21A6", "U+2194", "U+21D2", "U+21D4", "U+221D", "U+221E",
   "U+2211", "U+222B", "U+221A", "U+2202", "U+2207", "U+2208", "U+2209",
   "U+2282", "U+2286", "U+2283", "U+2287", "U+222A", "U+2229", "U+2200",
   "U+2203"}
AngleBrackets == {"U+27E8", "U+27E9"}
NORM == "U+2016"

FunctionWords ==
  {Str("sin"), Str("cos"), Str("tan"), Str("cot"), Str("sec"), Str("csc"),
   Str("log"), Str("ln"), Str("exp"), Str("min"), Str("max"), Str("arg"),
   Str("sup"), Str("inf"), Str("det"), Str("rank"), Str("tr"), Str("trace"),
   Str("diag"), Str("span"), Str("null"), Str("range"), Str("im"),
   Str("ker"), Str("dim")}
FontMacros ==
  {Str("mathbb"), Str("mathcal"), Str("mathrm"), Str("mathbf"),
   Str("mathit"), Str("mathtt"), Str("boldsymbol"), Str("bm")}
GreekMacros ==
  {Str("alpha"), Str("beta"), Str("gamma"), Str("delta"), Str("epsilon"),
   Str("varepsilon"), Str("zeta"), Str("eta"), Str("theta"), Str("vartheta"),
   Str("iota"), Str("kappa"), Str("lambda"), Str("mu"), Str("nu"), Str("xi"),
   Str("pi"), Str("varpi"), Str("rho"), Str("sigma"), Str("varsigma"),
   Str("tau"), Str("upsilon"), Str("phi"), Str("varphi"), Str("chi"),
   Str("psi"), Str("omega"), Str("partial"), Str("nabla"), Str("sum"),
   Str("int"), Str("prod"), Str("frac"), Str("sqrt"), Str("binom"),
   Str("cdot"), Str("times"), Str("div"), Str("over"), Str("lim"),
   Str("to"), Str("infty")}
\* the environments the wrapper matches (processMath, step 3)
WrapEnvs ==
  {Str("bmatrix"), Str("pmatrix"), Str("vmatrix"), Str("Vmatrix"),
   Str("matrix"), Str("smallmatrix"), Str("cases"), Str("array"),
   Str("align"), Str("aligned")}
\* the environments isLatexLike recognises
LatexLikeEnvs == WrapEnvs \cup {Str("gather"), Str("split")}

\* /‖[^‖]+‖/
HasNorm(s) ==
  \E i \in 1..Len(s) : \E j \in (i + 2)..Len(s) :
    s[i] = NORM /\ s[j] = NORM /\ NoneIn(s, i + 1, j - 1, {NORM})

\* /\\(m1|m2|..)\s*\{[A-Za-z0-9]+\}/
HasFontMacro(s) ==
  \E i \in 1..Len(s) : \E m \in FontMacros :
    /\ s[i] = BS
    /\ At(s, i + 1, m)
    /\ LET b == SkipClass(s, i + 1 + Len(m), WhiteSpace)
           e == SkipClass(s, b + 1, AlphaNum)
       IN b <= Len(s) /\ s[b] = "{" /\ e > b + 1 /\ e <= Len(s) /\ s[e] = "}"

\* the position after one group \s*\{[^}]+\} that starts at p, 0 if none
BraceGroupEnd(s, p) ==
  LET b == SkipClass(s, p, WhiteSpace)
      e == IndexFrom(s, <<"}">>, b + 1)
  IN IF b <= Len(s) /\ s[b] = "{" /\ e > b + 1 THEN e + 1 ELSE 0

\* /\\text\s*\{[^}]+\}/ and /\\operatorname\s*\{[^}]+\}/
HasBracedMacro(s, name) ==
  \E i \in 1..Len(s) :
    s[i] = BS /\ At(s, i + 1, name) /\ BraceGroupEnd(s, i + 1 + Len(name)) # 0

\* /\\(alpha|beta|..)\b/
HasGreekMacro(s) ==
  \E i \in 1..Len(s) : \E m \in GreekMacros :
    s[i] = BS /\ At(s, i + 1, m) /\ WordBoundary(s, i + 1 + Len(m))

\* /\\begin\{(?:bmatrix|..|gather|split)\}/
HasEnvBegin(s) ==
  \E i \in 1..Len(s) : \E e \in LatexLikeEnvs :
    At(s, i, Str("\\begin{") \o e \o <<"}">>)

\* /\[[^[\]]+,[^[\]]+\]/
HasListPair(s) ==
  \E i \in 1..Len(s) : \E c \in (i + 2)..Len(s) : \E j \in (c + 2)..Len(s) :
    /\ s[i] = "[" /\ s[c] = "," /\ s[j] = "]"
    /\ NoneIn(s, i + 1, j - 1, {"[", "]"})

\* /[A-Za-z]\s*[_^]\s*[0-9A-Za-z]/
HasSubSup(s) ==
  \E i \in 1..Len(s) :
    /\ s[i] \in Letters
    /\ LET h == SkipClass(s, i + 1, WhiteSpace)
       IN /\ h <= Len(s) /\ s[h] \in {"_", "^"}
          /\ LET t == SkipClass(s, h + 1, WhiteSpace)
             IN t <= Len(s) /\ s[t] \in AlphaNum

\* /[A-Za-z]\s*\([^)]*\)/
HasFunctionCall(s) ==
  \E i \in 1..Len(s) :
    /\ s[i] \in Letters
    /\ LET p == SkipClass(s, i + 1, WhiteSpace)
       IN p <= Len(s) /\ s[p] = "(" /\ IndexFrom(s, <<")">>, p + 1) # 0

isLatexLike(s) ==
  \/ HasChar(s, {BS})
  \/ HasChar(s, {"=", "_", "^"})
  \/ (HasChar(s, ArithOps) /\ HasChar(s, AlphaNum))
  \/ HasChar(s, AngleBrackets) \/ HasNorm(s)
  \/ HasChar(s, MathSymbols)
  \/ HasWord(s, FunctionWords, FALSE)
  \/ HasFontMacro(s)
  \/ HasBracedMacro(s, Str("text"))
  \/ HasBracedMacro(s, Str("operatorname"))
  \/ HasGreekMacro(s)
  \/ HasEnvBegin(s)
  \/ (HasListPair(s) /\ HasChar(s, AlphaNum))
  \/ HasSubSup(s)
  \/ HasFunctionCall(s)

(***************************************************************************)
(* contextIsMathy and the two guards.                                      *)
(***************************************************************************)
ContextWindow == 120
MathNouns ==
  {Str("ODE"), Str("PDE"), Str("Fourier"), Str("Taylor"), Str("polynomial"),
   Str("series"), Str("equation"), Str("matrix"), Str("vector"),
   Str("operator"), Str("rank"), Str("dimension"), Str("basis"),
   Str("eigen"), Str("SVD"), Str("distribution"), Str("probability"),
   Str("variance"), Str("expectation"), Str("gradient"), Str("divergence"),
   Str("curl")}
OrdinalWords ==
  {Str("th"), Str("st"), Str("nd"), Str("rd"), Str("dim"), Str("degree"),
   Str("term"), Str("mode"), Str("harmonic"), Str("eigen"), Str("component")}

\* /^\s*(?:-?\s*order|th|st|..|component)\b/i
StartsOrdinal(after) ==
  LET p == SkipClass(after, 1, WhiteSpace)
      q == IF p <= Len(after) /\ after[p] = "-" THEN p + 1 ELSE p
  IN \/ \E d \in {p, q} :
          LET w == SkipClass(after, d, WhiteSpace)
          IN AtNoCase(after, w, Str("order")) /\ WordBoundary(after, w + 5)
     \/ \E w \in OrdinalWords :
          AtNoCase(after, p, w) /\ WordBoundary(after, p + Len(w))

contextIsMathy(before, after) ==
  LET joined == before \o <<" ">> \o after
      window == From(joined, Max({1, Len(joined) - ContextWindow + 1}))
  IN \/ HasChar(window, {BS, "=", "_", "^"} \cup MathOperators)
     \/ HasWord(window, MathNouns, TRUE)
     \/ StartsOrdinal(after)

RomanLetters == {"i","v","x","l","c","d","m","I","V","X","L","C","D","M"}
EnumPunct == {",", ".", ";", ":", "!", "?", ENDASH, EMDASH, "-"}
SkipWords ==
  {Str("note"), Str("notes"), Str("see"), Str("ref"), Str("fig"),
   Str("figure"), Str("table"), Str("section"), Str("chapter"),
   Str("appendix")}

\* /^(?:[a-z]|[ivxlcdm]+|\d+)\)?\s*(?:$|[,\.;:!?–—-]\s)/i
IsEnumLabel(content) ==
  LET n == Len(content)
  IN \E h \in 1..n :
       /\ \/ (h = 1 /\ content[1] \in Letters)
          \/ AllIn(content, 1, h, RomanLetters)
          \/ AllIn(content, 1, h, Digits)
       /\ \E p \in {h + 1} \cup
                   (IF h + 1 <= n /\ content[h + 1] = ")" THEN {h + 2} ELSE {}) :
            \E q \in p..(n + 1) :
              /\ AllIn(content, p, q - 1, WhiteSpace)
              /\ \/ q = n + 1
                 \/ /\ q + 1 <= n
                    /\ content[q] \in EnumPunct
                    /\ content[q + 1] \in WhiteSpace

\* /^(?:note|notes|see|..|appendix)\b/i
StartsSkipWord(content) ==
  \E w \in SkipWords :
    AtNoCase(content, 1, w) /\ WordBoundary(content, 1 + Len(w))

\* a variant without the keyword rule
isSafeParens_NoKeywords(content, before, after, match) ==
  IF IsEnumLabel(content) THEN FALSE
  ELSE IF isLatexLike(content) THEN TRUE
  ELSE IF Len(content) = 1 /\ content[1] \in Letters
          /\ contextIsMathy(before, after) THEN TRUE
  ELSE FALSE

isSafeParens(content, before, after, match) ==
  IF IsEnumLabel(content) THEN FALSE
  ELSE IF StartsSkipWord(content) THEN FALSE
  ELSE IF isLatexLike(content) THEN TRUE
  ELSE IF Len(content) = 1 /\ content[1] \in Letters
          /\ contextIsMathy(before, after) THEN TRUE
  ELSE FALSE

\* /^!?\[.*\]\(.*\)$/
IsLinkOrImage(s) ==
  LET n == Len(s)
      o == IF n >= 1 /\ s[1] = "!" THEN 2 ELSE 1
  IN /\ o <= n /\ s[o] = "["
     /\ s[n] = ")"
     /\ NoneIn(s, o + 1, n - 1, LineTerminators)
     /\ \E k \in (o + 1)..(n - 2) : s[k] = "]" /\ s[k + 1] = "("

\* /^\^[^\]]+$/
IsFootnoteRef(content) ==
  /\ Len(content) >= 2
  /\ content[1] = "^"
  /\ NoneIn(content, 2, Len(content), {"]"})

\* /^\s*!\s*[^[]/
IsImageStarter(before) ==
  LET p == SkipClass(before, 1, WhiteSpace)
  IN /\ p <= Len(before) /\ before[p] = "!"
     /\ p + 1 <= Len(before) /\ before[p + 1] # "["

isSafeBrackets(content, before, after, match) ==
  IF IsLinkOrImage(before \o match \o after) THEN FALSE
  ELSE IF IsFootnoteRef(content) THEN FALSE
  ELSE IF IsImageStarter(before) THEN FALSE
  ELSE isLatexLike(content)

(***************************************************************************)
(* String.prototype.replace with a global regular expression: MatchEnd(i)  *)
(* is the position after the match that starts at i (0: no match at i),    *)
(* Repl(i, e) the replacement of the match at i..e-1.  Matches are taken   *)
(* leftmost first and do not overlap; none of the patterns matches "".     *)
(***************************************************************************)
ReplaceAll(s, MatchEnd(_, _), Repl(_, _, _)) ==
  LET RECURSIVE Go(_)
      Go(pos) ==
        LET starts == {i \in pos..Len(s) : MatchEnd(s, i) # 0}
        IN IF starts = {} THEN From(s, pos)
           ELSE LET i == Min(starts)
                    e == MatchEnd(s, i)
                IN Slice(s, pos, i - 1) \o Repl(s, i, e) \o Go(e)
  IN Go(1)

(***************************************************************************)
(* convertOutermostInline and convertInlineDelims.                         *)
(***************************************************************************)
ContextChars == 60

Guard(pair, content, before, after, match) ==
  IF pair = "parens" THEN isSafeParens(content, before, after, match)
  ELSE isSafeBrackets(content, before, after, match)

\* the loop of convertOutermostInline from index from on; lastEmit is the
\* position of the next character to emit, start = 0 when no span is open;
\* the iterations over characters other than openCh and closeCh change
\* nothing and are taken together
RECURSIVE OutermostLoop(_, _, _, _, _, _, _, _, _)
OutermostLoop(text, openCh, closeCh, pair, from, out, lastEmit, depth, start) ==
  LET marks == {k \in from..Len(text) : text[k] \in {openCh, closeCh}}
  IN IF marks = {}
     THEN IF lastEmit <= Len(text) THEN out \o From(text, lastEmit) ELSE out
     ELSE
       LET i == Min(marks)
       IN IF text[i] = openCh
          THEN OutermostLoop(text, openCh, closeCh, pair, i + 1, out, lastEmit,
                             depth + 1, IF depth = 0 THEN i ELSE start)
          ELSE IF depth > 0
          THEN IF depth - 1 = 0 /\ start >= 1
               THEN LET original  == Slice(text, start, i)
                        inner     == Slice(text, start + 1, i - 1)
                        trimmed   == trim(inner)
                        beforeCtx == Slice(text, Max({1, start - ContextChars}), start - 1)
                        afterCtx  == Slice(text, i + 1, Min({Len(text), i + ContextChars}))
                        replaceWithMath == Guard(pair, trimmed, beforeCtx, afterCtx, original)
                        replacement == IF replaceWithMath
                                       THEN <<"$">> \o trimmed \o <<"$">>
                                       ELSE original
                    IN OutermostLoop(text, openCh, closeCh, pair, i + 1,
                                     out \o Slice(text, lastEmit, start - 1) \o replacement,
                                     i + 1, 0, 0)
               ELSE OutermostLoop(text, openCh, closeCh, pair, i + 1, out, lastEmit,
                                  depth - 1, start)
          ELSE OutermostLoop(text, openCh, closeCh, pair, i + 1, out, lastEmit,
                             depth, start)

\* a variant that trims the text around the spans before it scans it
convertOutermostInline_TrimsText(text, openCh, closeCh, pair) ==
  OutermostLoop(trim(text), openCh, closeCh, pair, 1, << >>, 1, 0, 0)

convertOutermostInline(text, openCh, closeCh, pair) ==
  OutermostLoop(text, openCh, closeCh, pair, 1, << >>, 1, 0, 0)

convertInlineDelims(text, opts) ==
  LET t1 == IF opts.plainParensAsDelimiters
            THEN convertOutermostInline(text, "(", ")", "parens")
            ELSE text
  IN IF opts.plainBracketsAsDelimiters
     THEN convertOutermostInline(t1, "[", "]", "brackets")
     ELSE t1

(***************************************************************************)
(* segmentByDisplayMath and applyOutsideDisplay.                           *)
(***************************************************************************)
NewLines == {"\n", "\r"}

\* lineBoundsAt: ls the first position of the line holding pos, le the
\* position after its last character, adv the position after its terminator
lineBoundsAt(text, pos) ==
  LET n   == Len(text)
      ls  == Max({1} \cup {k + 1 : k \in {j \in 1..(pos - 1) : text[j] \in NewLines}})
      le  == LET stops == {k \in pos..n : text[k] \in NewLines}
             IN IF stops = {} THEN n + 1 ELSE Min(stops)
      adv == IF le <= n /\ text[le] = "\r" /\ le + 1 <= n /\ text[le + 1] = "\n"
             THEN le + 2
             ELSE IF le <= n THEN le + 1 ELSE le
  IN [ls |-> ls, le |-> le, adv |-> adv]

\* /^\s*\$\$\s*$/
IsDelimLine(line) ==
  LET p == SkipClass(line, 1, WhiteSpace)
  IN At(line, p, <<"$", "$">>) /\ AllIn(line, p + 2, Len(line), WhiteSpace)

isDelimLineAt(text, pos) ==
  LET b == lineBoundsAt(text, pos)
  IN IsDelimLine(Slice(text, b.ls, b.le - 1))

\* the while loop of segmentByDisplayMath from index i on; the iterations
\* that only advance i by one are taken together, up to the next position
\* where one of the loop's two tests matches
RECURSIVE SegmentLoop(_, _, _, _, _)
SegmentLoop(text, from, start, inside, parts) ==
  LET n     == Len(text)
      stops == {k \in from..n :
                  isDelimLineAt(text, k) \/ At(text, k, <<"$", "$">>)}
  IN IF stops = {}
     THEN IF start <= n
          THEN Append(parts, [inside |-> inside, chunk |-> From(text, start)])
          ELSE parts
     ELSE
       LET i      == Min(stops)
           before == IF i > start
                     THEN Append(parts, [inside |-> inside, chunk |-> Slice(text, start, i - 1)])
                     ELSE parts
       IN IF isDelimLineAt(text, i)
          THEN LET adv == lineBoundsAt(text, i).adv
               IN SegmentLoop(text, adv, adv, ~inside,
                              Append(before, [inside |-> TRUE, chunk |-> Slice(text, i, adv - 1)]))
          ELSE LET j == IndexFrom(text, <<"$", "$">>, i + 2)
               IN IF j = 0
                  THEN Append(before, [inside |-> inside, chunk |-> From(text, i)])
                  ELSE SegmentLoop(text, j + 2, j + 2, inside,
                                   Append(before, [inside |-> TRUE, chunk |-> Slice(text, i, j + 1)]))

\* a variant whose first chunk starts one character late
segmentByDisplayMath_LateStart(text) == SegmentLoop(text, 1, 2, FALSE, << >>)

segmentByDisplayMath(text) == SegmentLoop(text, 1, 1, FALSE, << >>)

MapOutside(parts, Transform(_)) ==
  LET RECURSIVE Go(_)
      Go(k) ==
        IF k > Len(parts) THEN << >>
        ELSE (IF parts[k].inside THEN parts[k].chunk ELSE Transform(parts[k].chunk))
             \o Go(k + 1)
  IN Go(1)

applyOutsideDisplay(text, Transform(_)) ==
  MapOutside(segmentByDisplayMath(text), Transform)

(***************************************************************************)
(* wrapBareMathLines and wrapBareMathLinesOutside (the bare-line promoter).*)
(***************************************************************************)
WordCap == 4
HeadingMax == 6
HrMin == 3
DD == <<"$", "$">>

\* String.prototype.split(/\r?\n/)
SplitLines(segment) ==
  LET n == Len(segment)
      RECURSIVE Go(_)
      Go(pos) ==
        LET k == IndexFrom(segment, <<"\n">>, pos)
        IN IF k = 0 THEN <<From(segment, pos)>>
           ELSE IF k - 1 >= pos /\ segment[k - 1] = "\r"
                THEN <<Slice(segment, pos, k - 2)>> \o Go(k + 1)
                ELSE <<Slice(segment, pos, k - 1)>> \o Go(k + 1)
  IN Go(1)

\* /^#{1,6}\s/
IsHeading(t) ==
  LET e == SkipClass(t, 1, {"#"})
  IN e >= 2 /\ e - 1 <= HeadingMax /\ e <= Len(t) /\ t[e] \in WhiteSpace

\* /^[-*•]\s+/
IsBullet(t) ==
  Len(t) >= 2 /\ t[1] \in {"-", "*", BULLET} /\ t[2] \in WhiteSpace

\* /^(\*{3,}|-{3,}|_{3,})$/
isHr(t) ==
  /\ Len(t) >= HrMin
  /\ \E c \in {"*", "-", "_"} : AllIn(t, 1, Len(t), {c})

isAlreadyMathDelim(t) == trim(t) = DD

\* /^\$.*\$$/.test(t) || /^\$\$[\s\S]*\$\$$/.test(t)
IsAlreadyWrapped(t) ==
  LET n == Len(t)
  IN \/ n >= 2 /\ t[1] = "$" /\ t[n] = "$" /\ NoneIn(t, 2, n - 1, LineTerminators)
     \/ n >= 4 /\ At(t, 1, DD) /\ At(t, n - 1, DD)

\* /[=^_]/.test(t) || /\\[A-Za-z]+/.test(t) || /[+\-*/]/.test(t)
hasMathToken(t) ==
  \/ HasChar(t, {"=", "^", "_"})
  \/ \E i \in 1..(Len(t) - 1) : t[i] = BS /\ t[i + 1] \in Letters
  \/ HasChar(t, ArithOps)

\* (t.match(/\b[A-Za-z]{2,}\b/g) || []).length
CountWords(t) ==
  Cardinality({i \in 1..Len(t) :
    /\ t[i] \in Letters
    /\ WordBoundary(t, i)
    /\ LET e == SkipClass(t, i, Letters)
       IN e - i >= 2 /\ WordBoundary(t, e)})

\* a variant whose word cap is off by one (words < 4)
isMathLine_StrictCap(line) ==
  IF HasChar(line, {"$"}) THEN FALSE
  ELSE LET t == trim(line)
       IN IF t = << >> THEN FALSE
          ELSE IF IsHeading(t) THEN FALSE
          ELSE IF IsBullet(t) THEN FALSE
          ELSE IF isHr(t) THEN FALSE
          ELSE IF IsAlreadyWrapped(t) THEN FALSE
          ELSE hasMathToken(t) /\ CountWords(t) < WordCap

isMathLine(line) ==
  IF HasChar(line, {"$"}) THEN FALSE
  ELSE LET t == trim(line)
       IN IF t = << >> THEN FALSE
          ELSE IF IsHeading(t) THEN FALSE
          ELSE IF IsBullet(t) THEN FALSE
          ELSE IF isHr(t) THEN FALSE
          ELSE IF IsAlreadyWrapped(t) THEN FALSE
          ELSE hasMathToken(t) /\ CountWords(t) <= WordCap

\* the output lines of wrapBareMathLines for line i of lines
WrapLineAt(lines, i) ==
  LET prevIsDelim == i > 1 /\ isAlreadyMathDelim(trim(lines[i - 1]))
      nextIsDelim == i + 1 <= Len(lines) /\ isAlreadyMathDelim(trim(lines[i + 1]))
  IN IF isMathLine(lines[i]) /\ ~prevIsDelim /\ ~nextIsDelim
     THEN <<DD, trimEnd(lines[i]), DD>>
     ELSE <<lines[i]>>

wrapBareMathLines(segment) ==
  LET lines == SplitLines(segment)
      RECURSIVE Go(_)
      Go(i) == IF i > Len(lines) THEN << >> ELSE WrapLineAt(lines, i) \o Go(i + 1)
  IN Join(Go(1), <<"\n">>)

\* text.split(/(\$\$[\s\S]*?\$\$)/g): outside parts at odd positions,
\* the matched $$...$$ spans at even positions
SplitDisplaySpans(text) ==
  LET RECURSIVE Go(_)
      Go(pos) ==
        LET starts == {i \in pos..Len(text) :
                         At(text, i, DD) /\ IndexFrom(text, DD, i + 2) # 0}
        IN IF starts = {} THEN <<From(text, pos)>>
           ELSE LET i == Min(starts)
                    j == IndexFrom(text, DD, i + 2)
                IN <<Slice(text, pos, i - 1), Slice(text, i, j + 1)>> \o Go(j + 2)
  IN Go(1)

wrapBareMathLinesOutside(text) ==
  LET parts == SplitDisplaySpans(text)
  IN Concat([i \in 1..Len(parts) |->
               IF i % 2 = 1 THEN wrapBareMathLines(parts[i]) ELSE parts[i]])

(***************************************************************************)
(* wrapInlineBareLatex (the bare token wrapper).                           *)
(***************************************************************************)
\* /^\s*\$\$\s*$/m
HasDelimOnlyLine(segment) ==
  LET n == Len(segment)
  IN \E p \in 1..(n - 1) :
       /\ At(segment, p, DD)
       /\ \E a \in 1..p :
            /\ (a = 1 \/ segment[a - 1] \in LineTerminators)
            /\ AllIn(segment, a, p - 1, WhiteSpace)
       /\ \E b \in (p + 2)..(n + 1) :
            /\ (b = n + 1 \/ segment[b] \in LineTerminators)
            /\ AllIn(segment, p + 2, b - 1, WhiteSpace)

NotAfterDollar(s, i) == i = 1 \/ s[i - 1] # "$"
NotBeforeDollar(s, e) == e > Len(s) \/ s[e] # "$"

\* /(?<!\$)\b(\d+)\s*\^\s*\\circ\b(?!\$)/g
DegreeEnd(s, i) ==
  IF NotAfterDollar(s, i) /\ s[i] \in Digits /\ WordBoundary(s, i)
  THEN LET d == SkipClass(s, i, Digits)
           h == SkipClass(s, d, WhiteSpace)
           c == SkipClass(s, h + 1, WhiteSpace)
           e == c + 5
       IN IF /\ h <= Len(s) /\ s[h] = "^"
             /\ At(s, c, Str("\\circ"))
             /\ WordBoundary(s, e)
             /\ NotBeforeDollar(s, e)
          THEN e ELSE 0
  ELSE 0
DegreeRepl(s, i, e) ==
  <<"$">> \o Slice(s, i, SkipClass(s, i, Digits) - 1) \o Str("^{\\circ}$")

\* /(?<!\$)(\\sqrt\s*\{[^}]+\})(?!\$)/g
SqrtEnd(s, i) ==
  IF NotAfterDollar(s, i) /\ At(s, i, Str("\\sqrt"))
  THEN LET e == BraceGroupEnd(s, i + 5)
       IN IF e # 0 /\ NotBeforeDollar(s, e) THEN e ELSE 0
  ELSE 0

\* /(?<!\$)(\\frac\s*\{[^}]+\}\s*\{[^}]+\})(?!\$)/g
FracEnd(s, i) ==
  IF NotAfterDollar(s, i) /\ At(s, i, Str("\\frac"))
  THEN LET g == BraceGroupEnd(s, i + 5)
           e == IF g = 0 THEN 0 ELSE BraceGroupEnd(s, g)
       IN IF e # 0 /\ NotBeforeDollar(s, e) THEN e ELSE 0
  ELSE 0
WrapRepl(s, i, e) == <<"$">> \o Slice(s, i, e - 1) \o <<"$">>

\* /(?<!\$)\b([A-Za-z])\s*([_^])\s*([A-Za-z0-9]+)\b(?=\s*[=+\-*/,:;.)]|$)(?!\$)/g
FollowChars == {"=", "+", "-", "*", "/", ",", ":", ";", ".", ")"}
SubSupParts(s, i) ==
  LET h == SkipClass(s, i + 1, WhiteSpace)
      t == SkipClass(s, h + 1, WhiteSpace)
      e == SkipClass(s, t, AlphaNum)
      q == SkipClass(s, e, WhiteSpace)
  IN [hat |-> h, idx |-> t,
      end |-> IF /\ NotAfterDollar(s, i) /\ s[i] \in Letters /\ WordBoundary(s, i)
                 /\ h <= Len(s) /\ s[h] \in {"_", "^"}
                 /\ e > t
                 /\ WordBoundary(s, e)
                 /\ ((q <= Len(s) /\ s[q] \in FollowChars) \/ e = Len(s) + 1)
                 /\ NotBeforeDollar(s, e)
              THEN e ELSE 0]
SubSupEnd(s, i) == SubSupParts(s, i).end
SubSupRepl(s, i, e) ==
  LET m == SubSupParts(s, i)
  IN <<"$", s[i], s[m.hat]>> \o Slice(s, m.idx, e - 1) \o <<"$">>

wrapInlineBareLatex(segment) ==
  IF HasDelimOnlyLine(segment) THEN segment
  ELSE LET s1 == ReplaceAll(segment, DegreeEnd, DegreeRepl)
           s2 == ReplaceAll(s1, SqrtEnd, WrapRepl)
           s3 == ReplaceAll(s2, FracEnd, WrapRepl)
       IN ReplaceAll(s3, SubSupEnd, SubSupRepl)

(***************************************************************************)
(* processMath: the explicit-delimiter rules, the environment wrapper and  *)
(* the optional stages.                                                    *)
(***************************************************************************)
\* /\\\((.*?)\\\)/g  ->  `$${p1.trim()}$`
InlineMathEnd(s, i) ==
  IF At(s, i, <<BS, "(">>)
  THEN LET j == IndexFrom(s, <<BS, ")">>, i + 2)
       IN IF j # 0 /\ NoneIn(s, i + 2, j - 1, LineTerminators) THEN j + 2 ELSE 0
  ELSE 0
InlineMathRepl(s, i, e) == <<"$">> \o trim(Slice(s, i + 2, e - 3)) \o <<"$">>
convertInlineMath(text) == ReplaceAll(text, InlineMathEnd, InlineMathRepl)

\* /\\\[(.*?)\\\]/gs  ->  `\n$$\n${p1.trim()}\n$$\n`
DisplayMathEnd(s, i) ==
  IF At(s, i, <<BS, "[">>)
  THEN LET j == IndexFrom(s, <<BS, "]">>, i + 2)
       IN IF j # 0 THEN j + 2 ELSE 0
  ELSE 0
DisplayMathRepl(s, i, e) ==
  <<"\n", "$", "$", "\n">> \o trim(Slice(s, i + 2, e - 3)) \o <<"\n", "$", "$", "\n">>
convertDisplayMath(text) == ReplaceAll(text, DisplayMathEnd, DisplayMathRepl)

\* the alternation (^|\n) at position i, followed by Rest: the position where
\* the rest of the pattern starts, ^ tried before \n; 0 when neither matches
LineStartAt(s, i, Rest(_, _)) ==
  IF i = 1 /\ Rest(s, 1) # 0 THEN 1
  ELSE IF s[i] = "\n" /\ Rest(s, i + 1) # 0 THEN i + 1
  ELSE 0

\* [ \t]*\[[ \t]*\n([\s\S]*?)\n[ \t]*\][ \t]*(?=\n|$) from position r:
\* the position of the \n that ends the body, 0 when there is no match
LineBracketBodyEnd(s, r) ==
  LET n == Len(s)
      p == SkipClass(s, r, Blanks)
      q == SkipClass(s, p + 1, Blanks)
      closes == {e \in (q + 1)..n :
                   /\ s[e] = "\n"
                   /\ LET x == SkipClass(s, e + 1, Blanks)
                          u == SkipClass(s, x + 1, Blanks)
                      IN x <= n /\ s[x] = "]" /\ (u = n + 1 \/ s[u] = "\n")}
  IN IF p <= n /\ s[p] = "[" /\ q <= n /\ s[q] = "\n" /\ closes # {}
     THEN Min(closes) ELSE 0
\* /(^|\n)[ \t]*\[[ \t]*\n([\s\S]*?)\n[ \t]*\][ \t]*(?=\n|$)/g
LineBracketEnd(s, i) ==
  LET r == LineStartAt(s, i, LineBracketBodyEnd)
  IN IF r = 0 THEN 0
     ELSE LET x == SkipClass(s, LineBracketBodyEnd(s, r) + 1, Blanks)
          IN SkipClass(s, x + 1, Blanks)
\* (_m, lead, body) => `${lead}$$\n${body.trim()}\n$$`
LineBracketRepl(s, i, e) ==
  LET r == LineStartAt(s, i, LineBracketBodyEnd)
      q == SkipClass(s, SkipClass(s, r, Blanks) + 1, Blanks)
      body == Slice(s, q + 1, LineBracketBodyEnd(s, r) - 1)
  IN Slice(s, i, r - 1) \o <<"$", "$", "\n">> \o trim(body) \o <<"\n", "$", "$">>
convertLineBrackets(text) == ReplaceAll(text, LineBracketEnd, LineBracketRepl)

BeginTok == Str("\\begin{")
EndTok == Str("\\end{")
\* the environment name that stands at position p followed by "}", << >> if none
EnvNameAt(s, p) ==
  LET names == {env \in WrapEnvs : At(s, p, env \o <<"}">>)}
  IN IF names = {} THEN << >> ELSE CHOOSE env \in names : TRUE
\* ([ \t]*)\\begin\{(env)\}([\s\S]*?)\\end\{\3\} from position r: the position
\* after the match, 0 when there is none
EnvRestEnd(s, r) ==
  LET ind == SkipClass(s, r, Blanks)
      env == EnvNameAt(s, ind + Len(BeginTok))
      close == IndexFrom(s, EndTok \o env \o <<"}">>, ind + Len(BeginTok) + Len(env) + 1)
  IN IF At(s, ind, BeginTok) /\ env # << >> /\ close # 0
     THEN close + Len(EndTok) + Len(env) + 1 ELSE 0
\* /(^|\n)([ \t]*)\\begin\{(bmatrix|..|aligned)\}([\s\S]*?)\\end\{\3\}/g
EnvEnd(s, i) ==
  LET r == LineStartAt(s, i, EnvRestEnd)
  IN IF r = 0 THEN 0 ELSE EnvRestEnd(s, r)
\* (_m, lead, indent, env, body) =>
\*   `${lead}$$\n${indent}\\begin{${env}}${body}\\end{${env}}\n$$`
EnvRepl(s, i, e) ==
  LET r == LineStartAt(s, i, EnvRestEnd)
      ind == SkipClass(s, r, Blanks)
      env == EnvNameAt(s, ind + Len(BeginTok))
      bodyFrom == ind + Len(BeginTok) + Len(env) + 1
      bodyTo == e - (Len(EndTok) + Len(env) + 1) - 1
  IN Slice(s, i, r - 1) \o <<"$", "$", "\n">> \o Slice(s, r, ind - 1)
       \o BeginTok \o env \o <<"}">> \o Slice(s, bodyFrom, bodyTo)
       \o EndTok \o env \o <<"}">> \o <<"\n", "$", "$">>
wrapMatrixEnvs(text) == ReplaceAll(text, EnvEnd, EnvRepl)

\* the statements of processMath, in order
StepInlineMath(text, opts) == convertInlineMath(text)
StepDisplayMath(text, opts) == convertDisplayMath(text)
StepLineBrackets(text, opts) == convertLineBrackets(text)
StepWrapEnvs(text, opts) ==
  IF opts.wrapMatrixEnvsInDisplayMath THEN wrapMatrixEnvs(text) ELSE text
StepWrapLines(text, opts) ==
  IF opts.wrapBareMathSingleLines THEN wrapBareMathLinesOutside(text) ELSE text
StepInlineDelims(text, opts) ==
  applyOutsideDisplay(text, LAMBDA seg : convertInlineDelims(seg, opts))
StepBareLatex(text, opts) ==
  IF opts.convertBareInlineLatex
  THEN applyOutsideDisplay(text, wrapInlineBareLatex)
  ELSE text

processMath(text, opts) ==
  LET t1 == StepInlineMath(text, opts)
      t2 == StepDisplayMath(t1, opts)
      t3 == StepLineBrackets(t2, opts)
      t4 == StepWrapEnvs(t3, opts)
      t5 == StepWrapLines(t4, opts)
      t6 == StepInlineDelims(t5, opts)
  IN StepBareLatex(t6, opts)

(***************************************************************************)
(* processOutsideCode, trimEmptyLinesAroundBlockMath, convertKatexToMathJax*)
(***************************************************************************)
\* the loop shared by convertKatexToMathJax and processOutsideCode: matches
\* are copied, every non-empty gap between them goes through Transform
KeepMatches(s, MatchEnd(_, _), Transform(_)) ==
  LET RECURSIVE Go(_)
      Go(last) ==
        LET starts == {i \in last..Len(s) : MatchEnd(s, i) # 0}
        IN IF starts = {}
           THEN IF last <= Len(s) THEN Transform(From(s, last)) ELSE << >>
           ELSE LET i == Min(starts)
                    e == MatchEnd(s, i)
                IN (IF i > last THEN Transform(Slice(s, last, i - 1)) ELSE << >>)
                   \o Slice(s, i, e - 1) \o Go(e)
  IN Go(1)

\* /https?:\/\/[^\s)]+/g
UrlEnd(s, i) ==
  LET p == IF At(s, i, Str("https://")) THEN i + 8
           ELSE IF At(s, i, Str("http://")) THEN i + 7 ELSE 0
      e == SkipUntil(s, p, WhiteSpace \cup {")"})
  IN IF p # 0 /\ e > p THEN e ELSE 0

\* a variant without the URL split
processOutsideCode_NoUrlSplit(text, opts) == processMath(text, opts)

processOutsideCode(text, opts) ==
  KeepMatches(text, UrlEnd, LAMBDA chunk : processMath(chunk, opts))

\* /(?:^|\n)[ \t]*\n[ \t]*(?=\$\$)/g
BlankBeforeRest(s, r) ==
  LET p == SkipClass(s, r, Blanks)
      q == SkipClass(s, p + 1, Blanks)
  IN IF p <= Len(s) /\ s[p] = "\n" /\ At(s, q, DD) THEN q ELSE 0
BlankBeforeEnd(s, i) ==
  LET r == LineStartAt(s, i, BlankBeforeRest)
  IN IF r = 0 THEN 0 ELSE BlankBeforeRest(s, r)
\* /(?<=\$\$)\n[ \t]*\n/g
BlankAfterEnd(s, i) ==
  LET p == SkipClass(s, i + 1, Blanks)
  IN IF At(s, i - 2, DD) /\ s[i] = "\n" /\ p <= Len(s) /\ s[p] = "\n"
     THEN p + 1 ELSE 0
NewlineRepl(s, i, e) == <<"\n">>

trimEmptyLinesAroundBlockMath(input) ==
  ReplaceAll(ReplaceAll(input, BlankBeforeEnd, NewlineRepl), BlankAfterEnd, NewlineRepl)

\* /^https?:\/\/\S+$/
isRawUrl(t) ==
  LET p == IF At(t, 1, Str("https://")) THEN 9
           ELSE IF At(t, 1, Str("http://")) THEN 8 ELSE 0
  IN p # 0 /\ p <= Len(t) /\ NoneIn(t, p, Len(t), WhiteSpace)

\* /^\[.*?\]\(.*?\)$/
isMarkdownLink(t) ==
  LET n == Len(t)
  IN /\ n >= 4 /\ t[1] = "[" /\ t[n] = ")"
     /\ \E k \in 2..(n - 2) :
          /\ t[k] = "]" /\ t[k + 1] = "("
          /\ NoneIn(t, 2, k - 1, LineTerminators)
          /\ NoneIn(t, k + 2, n - 1, LineTerminators)

\* /^https?:\/\/[^\s\[]+\[.*?\]\(.*?\)/
isCombined(t) ==
  LET n == Len(t)
      p == IF At(t, 1, Str("https://")) THEN 9
           ELSE IF At(t, 1, Str("http://")) THEN 8 ELSE 0
      q == SkipUntil(t, p, WhiteSpace \cup {"["})
  IN /\ p # 0 /\ q > p /\ q <= n /\ t[q] = "["
     /\ \E k \in (q + 1)..(n - 2) :
          /\ t[k] = "]" /\ t[k + 1] = "("
          /\ NoneIn(t, q + 1, k - 1, LineTerminators)
          /\ \E u \in (k + 2)..n :
               t[u] = ")" /\ NoneIn(t, k + 2, u - 1, LineTerminators)

ShortCircuits(input) ==
  LET trimmed == trim(input)
  IN isRawUrl(trimmed) \/ isMarkdownLink(trimmed) \/ isCombined(trimmed)

\* /```[\s\S]*?```/g
Fence == <<BT, BT, BT>>
\* a variant in which an opening fence without a closing fence runs to the
\* end of the text
FenceEnd_OpenToEnd(s, i) ==
  LET j == IndexFrom(s, Fence, i + 3)
  IN IF At(s, i, Fence) THEN (IF j # 0 THEN j + 3 ELSE Len(s) + 1) ELSE 0

FenceEnd(s, i) ==
  LET j == IndexFrom(s, Fence, i + 3)
  IN IF At(s, i, Fence) /\ j # 0 THEN j + 3 ELSE 0

\* a variant that hands back the trimmed text when a whole-input test matches
convertCall_ReturnsTrimmed(input, opts, held) ==
  [output |-> IF ShortCircuits(input) THEN trim(input)
              ELSE trimEmptyLinesAroundBlockMath(
                     KeepMatches(input, FenceEnd,
                                 LAMBDA seg : processOutsideCode(seg, opts))),
   opts |-> opts,
   regexps |-> held]

\* the index after the match of isCombined's pattern in t, 0 when there is
\* none: each .*? stops at the first place from which the rest matches
CombinedEnd(t) ==
  LET n  == Len(t)
      p  == IF At(t, 1, Str("https://")) THEN 9
            ELSE IF At(t, 1, Str("http://")) THEN 8 ELSE 0
      q  == SkipUntil(t, p, WhiteSpace \cup {"["})
      EndsFrom(k) ==
        {u \in (k + 2)..n : t[u] = ")" /\ NoneIn(t, k + 2, u - 1, LineTerminators)}
      ks == {k \in (q + 1)..(n - 2) :
               /\ t[k] = "]" /\ t[k + 1] = "("
               /\ NoneIn(t, q + 1, k - 1, LineTerminators)
               /\ EndsFrom(k) # {}}
  IN IF isCombined(t) THEN Min(EndsFrom(Min(ks))) ELSE 0

\* The RegExp objects of convertKatexToMathJax, one for each of the literals
\* of lines 117, 118, 119 and 123, with what a later use of the object could
\* tell: its g flag and its lastIndex.  Evaluating a literal makes a new
\* object whose lastIndex is 0.
RegExpLiterals ==
  [isRawUrl       |-> [global |-> FALSE, lastIndex |-> 0],
   isMarkdownLink |-> [global |-> FALSE, lastIndex |-> 0],
   isCombined     |-> [global |-> FALSE, lastIndex |-> 0],
   codeFenceRegex |-> [global |-> TRUE,  lastIndex |-> 0]]

\* re.test(s) for a pattern that starts with ^ (and has no m flag); found
\* tells whether the pattern matches s from its start, end is the index
\* after that match.  Without the g flag the search starts at 0 and
\* lastIndex is neither read nor written.  With it the search starts at
\* lastIndex, where only index 0 can match; a match moves lastIndex to its
\* end, a failure sets it to 0.
RegExpTest(re, found, end) ==
  IF re.global
  THEN IF re.lastIndex = 0 /\ found
       THEN [found |-> TRUE,  re |-> [re EXCEPT !.lastIndex = end]]
       ELSE [found |-> FALSE, re |-> [re EXCEPT !.lastIndex = 0]]
  ELSE [found |-> found, re |-> re]

\* a variant in which the link test is one object for all calls, made with
\* the g flag where the module is loaded: the call takes the object it is
\* handed instead of making one
convertCall_SharedLinkTest(input, opts, held) ==
  LET trimmed  == trim(input)
      rawUrl   == RegExpTest(RegExpLiterals.isRawUrl,
                             isRawUrl(trimmed), Len(trimmed))
      link     == RegExpTest([held.isMarkdownLink EXCEPT !.global = TRUE],
                             isMarkdownLink(trimmed), Len(trimmed))
      combined == RegExpTest(RegExpLiterals.isCombined,
                             isCombined(trimmed), CombinedEnd(trimmed))
      tested   == [held EXCEPT !.isRawUrl = rawUrl.re,
                               !.isMarkdownLink = link.re,
                               !.isCombined = combined.re]
  IN IF rawUrl.found \/ link.found \/ combined.found
     THEN [output |-> input, opts |-> opts, regexps |-> tested]
     ELSE [output |-> trimEmptyLinesAroundBlockMath(
                        KeepMatches(input, FenceEnd,
                                    LAMBDA seg : processOutsideCode(seg, opts))),
           opts |-> opts,
           regexps |-> [tested EXCEPT !.codeFenceRegex =
                          [RegExpLiterals.codeFenceRegex EXCEPT !.lastIndex = 0]]]

\* One call of convertKatexToMathJax with everything it could read or
\* leave behind: held are the RegExp objects earlier calls made, as they
\* left them.  The call makes its own objects (117-119, 123) and takes none
\* of held; it hands back the text it returns, the options record, which
\* it was given by reference and in which no statement of lines 115-471
\* writes, and the objects as they are when it returns.  The three tests
\* of lines 117-119 all run before line 120 looks at them.  After an early
\* return the object of line 123 is still the one of an earlier call; the
\* loop of lines 128-134 ends when exec finds no further fence, which sets
\* its lastIndex to 0.
convertCall(input, opts, held) ==
  LET trimmed  == trim(input)
      rawUrl   == RegExpTest(RegExpLiterals.isRawUrl,
                             isRawUrl(trimmed), Len(trimmed))
      link     == RegExpTest(RegExpLiterals.isMarkdownLink,
                             isMarkdownLink(trimmed), Len(trimmed))
      combined == RegExpTest(RegExpLiterals.isCombined,
                             isCombined(trimmed), CombinedEnd(trimmed))
      tested   == [held EXCEPT !.isRawUrl = rawUrl.re,
                               !.isMarkdownLink = link.re,
                               !.isCombined = combined.re]
  IN IF rawUrl.found \/ link.found \/ combined.found
     THEN [output |-> input, opts |-> opts, regexps |-> tested]
     ELSE [output |-> trimEmptyLinesAroundBlockMath(
                        KeepMatches(input, FenceEnd,
                                    LAMBDA seg : processOutsideCode(seg, opts))),
           opts |-> opts,
           regexps |-> [tested EXCEPT !.codeFenceRegex =
                          [RegExpLiterals.codeFenceRegex EXCEPT !.lastIndex = 0]]]

\* the text a call returns
convertKatexToMathJax(input, opts) ==
  convertCall(input, opts, RegExpLiterals).output

(***************************************************************************)
(* The state machine: the editor's text and the plugin's settings record,  *)
(* the calls made on them, and what the host holds around them.  text is   *)
(* the editor's value (for a function taken alone, the text the caller     *)
(* holds), opts the settings record, orig the argument of the last call,   *)
(* first the text before any call, calls counts the steps that took a      *)
(* text, and seen collects what an observer recorded of them.  clipboard   *)
(* is the system clipboard, which no step of the plugin writes; pending    *)
(* holds the clipboard reads of "Paste with conversion" still in flight;   *)
(* vault maps the Markdown files of the vault to their contents; job is    *)
(* the position of the loop of "Convert all files"; toggles counts the     *)
(* toggles flipped in the settings tab; regexps holds the RegExp objects   *)
(* the calls of convertKatexToMathJax made, as the last call left them.    *)
(***************************************************************************)
VARIABLES text, opts, orig, first, calls, seen,
          clipboard, pending, vault, job, toggles, regexps

vars == <<text, opts, orig, first, calls, seen,
          clipboard, pending, vault, job, toggles, regexps>>

\* what the host holds besides the editor and the settings
host == <<clipboard, pending, vault, job, toggles>>

MaxCalls == 2

\* the texts made of at most maxN of the given pieces
TokenTexts(Toks, maxN) ==
  UNION {{Concat(f) : f \in [1..k -> Toks]} : k \in 0..maxN}

\* the plugin's settings: the conversion options and the paste flag
SettingsWith(enabled, o) ==
  [enableDefaultPasteConversion |-> enabled,
   wrapMatrixEnvsInDisplayMath  |-> o.wrapMatrixEnvsInDisplayMath,
   plainParensAsDelimiters      |-> o.plainParensAsDelimiters,
   plainBracketsAsDelimiters    |-> o.plainBracketsAsDelimiters,
   convertBareInlineLatex       |-> o.convertBareInlineLatex,
   wrapBareMathSingleLines      |-> o.wrapBareMathSingleLines]

\* a clipboard text; blob tells whether the trimmed text is a URL, a link
\* or a URL glued to a link and nothing else
ClipOf(t, isBlob) == [clip |-> t, blob |-> isBlob]

\* vault.getMarkdownFiles() and the contents of the files
MarkdownFiles == <<"a.md", "b.md">>
VaultFiles ==
  [f \in {MarkdownFiles[i] : i \in DOMAIN MarkdownFiles} |->
     IF f = "a.md" THEN Str("\\(a\\)") ELSE Str("x \\[y\\]")]

\* "Convert all files" is not running
Idle(shown) ==
  [phase |-> "idle", rest |-> << >>, converted |-> << >>, notified |-> shown]

InitAll(Texts, Options, Clips) ==
  /\ text \in Texts
  /\ opts \in Options
  /\ orig = text
  /\ first = text
  /\ calls = 0
  /\ seen = {}
  /\ clipboard \in Clips
  /\ pending = << >>
  /\ vault = VaultFiles
  /\ job = Idle(FALSE)
  /\ toggles = 0
  /\ regexps = RegExpLiterals

InitWith(Texts, Options) == InitAll(Texts, Options, {ClipOf(<< >>, FALSE)})

\* one call of convertKatexToMathJax as an observer records it: the
\* rank among the steps, the arguments, the RegExp objects earlier calls
\* had left, the text returned, and the settings record and the RegExp
\* objects after the call
CallOf(n, input, options, held, returned) ==
  [kind |-> "call", nth |-> n, input |-> input, opts |-> options,
   held |-> held, output |-> returned.output,
   optsAfter |-> returned.opts, left |-> returned.regexps]

\* a handler goes on after a call: the settings record it handed over and
\* the RegExp objects are as the call left them
Returns(returned) ==
  /\ opts' = returned.opts
  /\ regexps' = returned.regexps

\* a step without a call
NoCall == [output |-> << >>, opts |-> opts, regexps |-> regexps]

\* the calls of convertKatexToMathJax recorded so far
Calls == {e \in seen : e.kind = "call"}

\* the conversions begun or still to come: the steps taken, the clipboard
\* reads in flight and the files "Convert all files" has yet to read
Started ==
  calls + Len(pending)
        + (IF job.phase = "reading" THEN Len(job.rest)
           ELSE IF job.phase = "writing" THEN Len(job.rest) - 1
           ELSE 0)

\* the steps a behaviour may hold: conversions begun or still to come, and
\* toggles flipped
MaxSteps == 3

Steps == Started + toggles

\* the selection of the editor when a paste arrives: the whole text, or
\* the cursor at its end
Selections(t) ==
  {[from |-> 1, to |-> Len(t)], [from |-> Len(t) + 1, to |-> Len(t)]}

\* editor.replaceSelection(replacement): the selected text gives way to
\* the replacement, which is inserted at the cursor when nothing is selected
replaceSelection(t, sel, replacement) ==
  Slice(t, 1, sel.from - 1) \o replacement \o Slice(t, sel.to + 1, Len(t))

\* "Convert current text file" can run
ConvertReady == Started < MaxCalls /\ Steps < MaxSteps

\* "Convert current text file" once convertKatexToMathJax has returned: the
\* result is written back with editor.setValue
ConvertWith(returned) ==
  /\ text' = returned.output
  /\ orig' = text
  /\ calls' = calls + 1
  /\ Returns(returned)
  /\ UNCHANGED <<first, host>>
  /\ seen' = seen \cup {CallOf(calls + 1, text, opts, regexps, returned)}

\* "Convert current text file": convertKatexToMathJax(editor.getValue(),
\* settings), its result written back with editor.setValue
Convert ==
  /\ ConvertReady
  /\ \E returned \in {convertCall(text, opts, regexps)} : ConvertWith(returned)

\* the texts the user copies while the plugin is at work
CopiedClips ==
  {ClipOf(Str("[\\(a\\)](u)"), TRUE), ClipOf(Str("\\(a\\) (x_1)"), FALSE)}

\* the user copies another text: the clipboard holds it from now on
Copy ==
  /\ \E c \in CopiedClips \ {clipboard} : clipboard' = c
  /\ UNCHANGED <<text, opts, orig, first, calls, seen,
                 pending, vault, job, toggles, regexps>>

\* "Paste with conversion", the command callback: it starts
\* navigator.clipboard.readText() and returns; the editor is not touched
PasteCommand ==
  /\ Steps < MaxSteps
  /\ pending' = Append(pending, clipboard.clip)
  /\ UNCHANGED <<text, opts, orig, first, calls, seen,
                 clipboard, vault, job, toggles, regexps>>

\* the reads in flight without the i-th
WithoutRead(i) ==
  [j \in 1..(Len(pending) - 1) |-> IF j < i THEN pending[j] ELSE pending[j + 1]]

\* "Paste with conversion", the callback of the i-th read in flight once
\* convertKatexToMathJax has returned: the result replaces the selection.
\* Any read in flight may resolve, whatever ran since its command, and its
\* text is converted under the settings as they are when it resolves.
PasteResolveWith(i, returned) ==
  /\ Returns(returned)
  /\ UNCHANGED <<first, clipboard, vault, job, toggles>>
  /\ \E sel \in Selections(text) :
       text' = replaceSelection(text, sel, returned.output)
  /\ orig' = pending[i]
  /\ seen' = seen \cup
       {CallOf(calls + 1, pending[i], opts, regexps, returned)}
  /\ pending' = WithoutRead(i)
  /\ calls' = calls + 1

\* a read of the clipboard that is rejected: the callback never runs and
\* nothing is written
PasteRejected ==
  /\ \E i \in DOMAIN pending : pending' = WithoutRead(i)
  /\ UNCHANGED <<text, opts, orig, first, calls, seen,
                 clipboard, vault, job, toggles, regexps>>

\* what an observer records of a paste event: the clipboard text, the
\* settings, whether the default paste was prevented, how often the
\* selection was replaced and by what
PasteEventOf(n, c, settings, handled, converted) ==
  [kind |-> "paste", nth |-> n, clip |-> c.clip, blob |-> c.blob,
   settings |-> settings, prevented |-> handled,
   replaced |-> IF handled THEN 1 ELSE 0,
   written |-> IF handled THEN converted ELSE << >>]

\* the paste events recorded so far
PasteEvents == {e \in seen : e.kind = "paste"}

\* a paste event can arrive
EditorPasteReady == Started < MaxCalls /\ Steps < MaxSteps

\* the editor-paste handler gets as far as the conversion: the clipboard
\* text is no URL or link blob, the flag is set and the text is not empty
EditorPasteConverts ==
  /\ ~ShortCircuits(clipboard.clip)
  /\ opts.enableDefaultPasteConversion
  /\ clipboard.clip # << >>

\* the end of a paste event: when the handler converted, it has prevented
\* the default paste and replaces the selection by the converted text;
\* when it did not, the host pastes the clipboard text.  The event is
\* recorded with what the handler did, and the call with it.
EditorPasteWith(handled, returned) ==
  /\ Returns(returned)
  /\ UNCHANGED <<first, host>>
  /\ \E sel \in Selections(text) :
       text' = replaceSelection(text, sel,
                                IF handled THEN returned.output
                                ELSE clipboard.clip)
  /\ orig' = clipboard.clip
  /\ seen' = seen
       \cup {PasteEventOf(calls + 1, clipboard, opts, handled, returned.output)}
       \cup (IF handled
             THEN {CallOf(calls + 1, clipboard.clip, opts, regexps, returned)}
             ELSE {})
  /\ calls' = calls + 1

\* the editor-paste handler: nothing for a URL or link blob; otherwise,
\* with the flag set and a clipboard text that is not empty, preventDefault
\* and replaceSelection(convertKatexToMathJax(clipboardText, settings))
EditorPaste ==
  /\ EditorPasteReady
  /\ \E handled \in {EditorPasteConverts} :
       \E returned \in {IF handled
                        THEN convertCall(clipboard.clip, opts, regexps)
                        ELSE NoCall} :
         EditorPasteWith(handled, returned)

\* a paste event the handler leaves to the host
EditorPasteSkips ==
  /\ EditorPasteReady
  /\ ~EditorPasteConverts
  /\ EditorPasteWith(FALSE, NoCall)

\* "Convert all files", the command callback up to its first await: the
\* list of files is taken and the read of the first file started
ConvertAllStart ==
  /\ job.phase = "idle"
  /\ Steps + Len(MarkdownFiles) <= MaxSteps
  /\ job' = [phase |-> "reading", rest |-> MarkdownFiles,
             converted |-> << >>, notified |-> FALSE]
  /\ UNCHANGED <<text, opts, orig, first, calls, seen,
                 clipboard, pending, vault, toggles, regexps>>

\* "Convert all files", the read of a file has resolved and
\* convertKatexToMathJax has returned: the content was converted under the
\* settings as they are now, and vault.modify is started with the result
ConvertAllReadWith(returned) ==
  /\ job' = [job EXCEPT !.phase = "writing", !.converted = returned.output]
  /\ orig' = vault[Head(job.rest)]
  /\ Returns(returned)
  /\ UNCHANGED <<text, first, clipboard, pending, vault, toggles>>
  /\ seen' = seen \cup
       {CallOf(calls + 1, vault[Head(job.rest)], opts, regexps, returned)}
  /\ calls' = calls + 1

\* "Convert all files", vault.modify resolves: the file holds the converted
\* content, and the loop reads the next file or, after the last one, shows
\* the Notice
ConvertAllWrite ==
  /\ job.phase = "writing"
  /\ vault' = [vault EXCEPT ![Head(job.rest)] = job.converted]
  /\ job' = IF Tail(job.rest) = << >> THEN Idle(TRUE)
            ELSE [phase |-> "reading", rest |-> Tail(job.rest),
                  converted |-> << >>, notified |-> FALSE]
  /\ UNCHANGED <<text, opts, orig, first, calls, seen,
                 clipboard, pending, toggles, regexps>>

\* the handlers that are about to call convertKatexToMathJax, each with the
\* text it hands over: the command on the editor's value, a paste event on
\* the clipboard text, the callback of a clipboard read on the text read,
\* the loop over the files on the content of the file just read
Callers ==
  (IF ConvertReady
   THEN {[handler |-> "convert-editor-text-from", input |-> text, read |-> 0]}
   ELSE {})
  \cup
  (IF EditorPasteReady /\ EditorPasteConverts
   THEN {[handler |-> "editor-paste", input |-> clipboard.clip, read |-> 0]}
   ELSE {})
  \cup
  {[handler |-> "paste-katex-to-mathjax", input |-> pending[i], read |-> i] :
     i \in DOMAIN pending}
  \cup
  (IF job.phase = "reading"
   THEN {[handler |-> "convert-all-files-from",
          input |-> vault[Head(job.rest)], read |-> 0]}
   ELSE {})

\* one of them calls convertKatexToMathJax with the settings as they are,
\* while the RegExp objects of earlier calls are as those left them, and
\* goes on with what the call hands back
Call ==
  \E c \in Callers :
    \E returned \in {convertCall(c.input, opts, regexps)} :
      \/ c.handler = "convert-editor-text-from" /\ ConvertWith(returned)
      \/ c.handler = "editor-paste" /\ EditorPasteWith(TRUE, returned)
      \/ c.handler = "paste-katex-to-mathjax"
           /\ PasteResolveWith(c.read, returned)
      \/ c.handler = "convert-all-files-from"
           /\ ConvertAllReadWith(returned)

\* the toggles of the settings tab, one for each field of the settings
ToggledFlags ==
  {"enableDefaultPasteConversion", "wrapMatrixEnvsInDisplayMath",
   "plainParensAsDelimiters", "plainBracketsAsDelimiters",
   "convertBareInlineLatex", "wrapBareMathSingleLines"}

\* a toggle of the settings tab writes its value into the settings record
\* at once; saving the settings afterwards changes nothing here
Toggle ==
  /\ Steps < MaxSteps
  /\ \E f \in ToggledFlags : opts' = [opts EXCEPT ![f] = ~@]
  /\ toggles' = toggles + 1
  /\ UNCHANGED <<text, orig, first, calls, seen,
                 clipboard, pending, vault, job, regexps>>

\* the toggle "Enable default paste conversion" of the settings tab
ToggleDefaultPaste ==
  /\ opts' = [opts EXCEPT !.enableDefaultPasteConversion = ~@]
  /\ UNCHANGED <<text, orig, first, calls, seen, host, regexps>>

\* wrapBareMathLines(segment) alone, as wrapBareMathLinesOutside calls it on
\* a segment outside display math
WrapLines ==
  /\ calls < MaxCalls
  /\ text' = wrapBareMathLines(text)
  /\ orig' = text
  /\ calls' = calls + 1
  /\ UNCHANGED <<opts, first, seen, host, regexps>>

\* processMath(text, opts) alone, as processOutsideCode calls it on a chunk
\* between URLs
ProcessMath ==
  /\ calls < MaxCalls
  /\ text' = processMath(text, opts)
  /\ orig' = text
  /\ calls' = calls + 1
  /\ UNCHANGED <<opts, first, seen, host, regexps>>

Next == Convert

NextWrapLines == WrapLines

NextProcessMath == ProcessMath

NextPlugin ==
  \/ Copy
  \/ EditorPasteSkips
  \/ PasteCommand \/ PasteRejected
  \/ ConvertAllStart \/ ConvertAllWrite
  \/ Toggle
  \/ Call

NextEditor == EditorPaste \/ ToggleDefaultPaste

\* the matches of a /g regex in s, left to right
MatchesOf(s, MatchEnd(_, _)) ==
  LET RECURSIVE Go(_)
      Go(last) ==
        LET starts == {i \in last..Len(s) : MatchEnd(s, i) # 0}
        IN IF starts = {} THEN << >>
           ELSE LET i == Min(starts)
                    e == MatchEnd(s, i)
                IN <<Slice(s, i, e - 1)>> \o Go(e)
  IN Go(1)

\* the spans occur in s one after the other, without overlap
InOrder(spans, s) ==
  LET RECURSIVE Go(_, _)
      Go(k, from) ==
        IF k > Len(spans) THEN TRUE
        ELSE LET p == IndexFrom(s, spans[k], from)
             IN p # 0 /\ Go(k + 1, p + Len(spans[k]))
  IN Go(1, 1)

(***************************************************************************)
(* Fenced code blocks (C1).                                                *)
(***************************************************************************)
FencePieces == {Str("\n"), Str("$$"), Str(" "), Str("\\(x\\)")}
MaxFencePieces == 3
FenceDocs ==
  {Fence \o body \o Fence : body \in TokenTexts(FencePieces, MaxFencePieces)}

InitFence == InitWith(FenceDocs, ConvertOptions)
SpecFence == InitFence /\ [][Next]_vars

\* C1: every fenced code block of the argument of a call (a triple-backtick
\* fence up to the next one, paired left to right) occurs byte-identical,
\* and in order, in the result of convertKatexToMathJax, for every options
\* record and whatever the block contains.
FencedBlocksKept ==
  calls >= 1 => InOrder(MatchesOf(orig, FenceEnd), text)

(***************************************************************************)
(* Existing display math (C2).                                             *)
(***************************************************************************)
DisplayPieces == {Str("\n"), Str("x"), Str(" "), Str("\\(y\\)")}
MaxDisplayPieces == 3
DisplayDocs ==
  {DD \o mid \o DD : mid \in TokenTexts(DisplayPieces, MaxDisplayPieces)}

InitDisplay == InitWith(DisplayDocs, ConvertOptions)
SpecDisplay == InitDisplay /\ [][Next]_vars

\* the text strictly between the opening and the closing $$ of a document
\* that starts and ends with $$
Between(doc) == Slice(doc, 3, Len(doc) - 2)

\* the two forms of a $$ pair: two delimiter lines, or a span on one line
OnDelimLines(mid) == Len(mid) >= 1 /\ mid[1] = LF /\ mid[Len(mid)] = LF
OnOneLine(mid) == NoneIn(mid, 1, Len(mid), {LF})

\* C2: the text strictly between a pair of $$ delimiters of the input (two
\* delimiter lines, or a $$...$$ span on one line) occurs byte-identical in
\* the result of the conversion, for every combination of the flags.
InsideDisplayKept ==
  (calls = 1 /\ (OnDelimLines(Between(first)) \/ OnOneLine(Between(first))))
    => Contains(text, Between(first))

(***************************************************************************)
(* Whole-input URLs and links (C3).                                        *)
(***************************************************************************)
MaxPad == 1
Pads == TokenTexts({<<SP>>, <<LF>>}, MaxPad)
BareUrls == {Str("http://x_1"), Str("https://a.b/(c_1)")}
LinkLabels == {Str("x_1"), Str("\\(a\\)"), Str("a b")}
LinkTargets == {Str("u"), Str("http://x_1"), Str("\\[b\\]")}
MarkdownLinks ==
  {Str("[") \o l \o Str("](") \o t \o Str(")") :
     l \in LinkLabels, t \in LinkTargets}
UrlThenLinks == {u \o l : u \in BareUrls, l \in MarkdownLinks}
\* what the three whole-input tests are meant to catch
Blobs == BareUrls \cup MarkdownLinks \cup UrlThenLinks
\* texts that are none of them
Proses == {Str("\\(a\\)"), Str("see [x_1](u)"), Str("x_1 = http://x_1")}
BlobDocs ==
  {lead \o core \o trail :
     lead \in Pads, core \in Blobs \cup Proses, trail \in Pads}

InitBlob == InitWith(BlobDocs, ConvertOptions)
SpecBlob == InitBlob /\ [][Next]_vars

\* C3: when the trimmed argument is entirely a bare http(s) URL, entirely a
\* Markdown link [label](target), or a URL immediately followed by a
\* bracketed link, convertKatexToMathJax returns the argument itself,
\* untrimmed and character for character, for every options record.
BlobReturnedUnchanged ==
  (calls >= 1 /\ trim(orig) \in Blobs) => text = orig

\* a padded link whose label is explicit inline math came back as it went in
BlobReturnedUnchangedWitness ==
  /\ calls = 1
  /\ trim(orig) \in MarkdownLinks
  /\ trim(orig) # orig
  /\ Contains(orig, Str("\\(a\\)"))
  /\ opts = DEFAULT_SETTINGS
  /\ text = orig

(***************************************************************************)
(* URLs inside prose (C4).                                                 *)
(***************************************************************************)
UrlPieces ==
  {Str("http://x_1"), Str("https://b"), Str(")"), Str("(x_1"),
   Str(" \\(y\\) ")}
MaxUrlPieces == 3
UrlDocs == TokenTexts(UrlPieces, MaxUrlPieces)

InitUrl == InitWith(UrlDocs, ConvertOptions)
SpecUrl == InitUrl /\ [][Next]_vars

\* C4: the http(s) URL spans of the argument (from http:// or https:// up
\* to the next whitespace or closing parenthesis) occur in the result
\* byte-identical and in the same order, for every options record and
\* whatever convertible math stands around them.
UrlSpansKept ==
  calls >= 1 => InOrder(MatchesOf(orig, UrlEnd), text)

\* two URLs with explicit inline math between them: the math was converted
\* and the URLs were kept, although the bare-token wrapper is on and x_1 is
\* one of its tokens
UrlSpansKeptWitness ==
  /\ calls = 1
  /\ orig = Str("http://x_1 \\(y\\) https://b")
  /\ text = Str("http://x_1 $y$ https://b")
  /\ opts.convertBareInlineLatex

(***************************************************************************)
(* Explicit inline math (C5).                                              *)
(***************************************************************************)
InlinePieces == {Str("a^2"), Str("+b"), <<SP>>, <<LF>>}
MaxInlinePieces == 3
InlineExamples == {Str("a^2+b^2=c^2"), Str("a^2 + b^2 = c^2")}
InlineDocs ==
  {Str("\\(") \o x \o Str("\\)") :
     x \in InlineExamples \cup TokenTexts(InlinePieces, MaxInlinePieces)}

InitInline == InitWith(InlineDocs, {DEFAULT_SETTINGS})
SpecInline == InitInline /\ [][Next]_vars

\* C5: with the default options a text \(X\), X free of \), is converted
\* to $ + trim(X) + $.
InlineSpanConverted ==
  calls = 1 => text = Str("$") \o trim(Between(first)) \o Str("$")

(***************************************************************************)
(* Explicit display math (C6).                                             *)
(***************************************************************************)
AroundPieces == {Str("a"), <<LF>>}
MaxAroundPieces == 3
Arounds == TokenTexts(AroundPieces, MaxAroundPieces)
BlockBodies == {Str("x"), Str(" E=mc^2 ")}
BlockDocs ==
  {pre \o Str("\\[") \o x \o Str("\\]") \o post :
     pre \in Arounds, x \in BlockBodies, post \in Arounds}

InitBlock == InitWith(BlockDocs, {DEFAULT_SETTINGS})
SpecBlock == InitBlock /\ [][Next]_vars

\* the lines of a text, a newline at the very end ending the last line
LinesOf(s) ==
  LET ls == SplitLines(s)
  IN IF Len(ls) >= 2 /\ ls[Len(ls)] = << >> THEN SubSeq(ls, 1, Len(ls) - 1) ELSE ls

IsBlank(line) == trim(line) = << >>

\* lines i..i+2 are a display block, with no blank line between earlier text
\* and its opening $$ and none between its closing $$ and later text
TightBlockAt(ls, i) ==
  /\ i + 2 <= Len(ls)
  /\ ls[i] = DD /\ ~IsBlank(ls[i + 1]) /\ ls[i + 2] = DD
  /\ ~(i > 2 /\ IsBlank(ls[i - 1]))
  /\ ~(i + 3 < Len(ls) /\ IsBlank(ls[i + 3]))

\* C6: with the default options a span \[X\] comes out as a display block,
\* the opening $$, the body and the closing $$ on separate lines, with no
\* blank line directly before the opening $$ or directly after the closing
\* $$, whatever text precedes or follows the span.
DisplayBlockTight ==
  calls = 1 => \E i \in 1..Len(LinesOf(text)) : TightBlockAt(LinesOf(text), i)

(***************************************************************************)
(* Converting twice (C7).                                                  *)
(***************************************************************************)
IdemPieces ==
  {Str("\\(x\\)"), Str("\\[x\\]"), Str("\\begin{matrix}a\\end{matrix}"),
   <<LF>>, Str("a")}
MaxIdemPieces == 3
IdemDocs == TokenTexts(IdemPieces, MaxIdemPieces)

InitIdem == InitWith(IdemDocs, {DEFAULT_SETTINGS})
SpecIdem == InitIdem /\ [][Next]_vars

\* C7: with the default options converting a converted text changes
\* nothing: convert(convert(x)) = convert(x).
ConvertIdempotent ==
  calls = 2 => text = orig

(***************************************************************************)
(* Bare environments (C8).                                                 *)
(***************************************************************************)
EnvOf(name, body) ==
  Str("\\begin{") \o name \o Str("}") \o body \o Str("\\end{") \o name \o Str("}")
EnvSamples ==
  {EnvOf(name, Str("a")) : name \in WrapEnvs}
    \cup {EnvOf(Str("cases"), Str("a\\\\\nb"))}
EnvLeads == {<< >>, Str(" "), Str("  "), Str("x "), Str("x\n")}
EnvTrails == {<< >>, Str(" y"), Str("\ny")}
EnvDocs ==
  {pre \o env \o post : pre \in EnvLeads, env \in EnvSamples, post \in EnvTrails}
EnvOptions ==
  {[DEFAULT_SETTINGS EXCEPT !.wrapMatrixEnvsInDisplayMath = b] : b \in BOOLEAN}

InitEnv == InitWith(EnvDocs, EnvOptions)
SpecEnv == InitEnv /\ [][Next]_vars

\* the environment of a document of EnvDocs, from \begin to its \end{ENV}
EnvSpanOf(doc) ==
  LET b == IndexFrom(doc, Str("\\begin{"), 1)
      e == IndexFrom(doc, Str("\\end{"), b)
  IN Slice(doc, b, IndexFrom(doc, Str("}"), e))

\* the blanks before the environment, when nothing else precedes it on its line
EnvIndentOf(doc) ==
  LET b == IndexFrom(doc, Str("\\begin{"), 1)
      nl == {i \in 1..(b - 1) : doc[i] = LF}
      ls == IF nl = {} THEN 1 ELSE Max(nl) + 1
  IN IF AllIn(doc, ls, b - 1, Blanks) THEN Slice(doc, ls, b - 1) ELSE << >>

\* env stands in s between a $$ line and a $$ line, indent before it
WrappedIn(s, env, indent) ==
  \E k \in 1..Len(s) :
    /\ At(s, k, env)
    /\ LET e == k + Len(env)
           nlb == {i \in 1..(k - 1) : s[i] = LF}
           nla == {i \in e..Len(s) : s[i] = LF}
           ls == IF nlb = {} THEN 1 ELSE Max(nlb) + 1
           le == IF nla = {} THEN Len(s) + 1 ELSE Min(nla)
       IN /\ ls >= 4 /\ Slice(s, ls - 3, ls - 1) = Str("$$\n")
          /\ (ls = 4 \/ s[ls - 4] = LF)
          /\ At(s, le, Str("\n$$"))
          /\ (le + 3 > Len(s) \/ s[le + 3] = LF)
          /\ Len(indent) <= k - ls
          /\ Slice(s, k - Len(indent), k - 1) = indent

\* C8: with wrapMatrixEnvsInDisplayMath a \begin{ENV}...\end{ENV} span
\* outside existing math, ENV one of the ten wrapped environments, comes out
\* between a $$ line and a $$ line, unchanged and with the indentation of
\* its opening line; with the flag off no environment is wrapped.
EnvWrappedByFlag ==
  calls = 1 =>
    IF opts.wrapMatrixEnvsInDisplayMath
    THEN WrappedIn(text, EnvSpanOf(first), EnvIndentOf(first))
    ELSE ~Contains(text, DD)

(***************************************************************************)
(* Markdown links under plainBracketsAsDelimiters (C10).                   *)
(***************************************************************************)
LabelSamples == {Str("x_1"), Str("text"), Str("a+b")}
TargetSamples == {Str("a"), Str("http://x"), Str("u v")}
LinkLeads == {<< >>, Str("see "), Str("a\n")}
LinkTrails == {<< >>, Str(" now")}
LinkDocs ==
  {pre \o bang \o Str("[") \o l \o Str("](") \o t \o Str(")") \o post :
     pre \in LinkLeads, bang \in {<< >>, Str("!")}, l \in LabelSamples,
     t \in TargetSamples, post \in LinkTrails}
BracketOptions ==
  {[DEFAULT_SETTINGS EXCEPT !.plainBracketsAsDelimiters = TRUE,
                            !.plainParensAsDelimiters = b] : b \in BOOLEAN}

InitLink == InitWith(LinkDocs, BracketOptions)
SpecLink == InitLink /\ [][Next]_vars

\* the bracketed label of the link of a document of LinkDocs
LabelSpanOf(doc) ==
  Slice(doc, IndexFrom(doc, Str("["), 1), IndexFrom(doc, Str("]("), 1))

\* C10: with plainBracketsAsDelimiters the bracketed label of a Markdown
\* link or image stays as it is, wherever the link stands in the text,
\* whatever its target and whatever its label contains.
LinkLabelKept ==
  calls = 1 => Contains(text, LabelSpanOf(first))

(***************************************************************************)
(* The bare-line promoter on a segment outside display math (C9).          *)
(***************************************************************************)
LineSamples ==
  {Str("a^2 + b^2 = c^2"), Str("This is a sentence."), << >>, Str("  "),
   Str("# a = b"), Str("####### a = b"), Str("- a = b"), Str("-a = b"),
   Str("---"), Str("--"), DD, Str("$x = 1$"), Str("  x = 1  "),
   Str("\\alpha"), Str("so the sum is a+b"), Str("we see that the sum is a+b"),
   Str("to to to to to = 1"), Str("x1 ab2 c_d = ef")}
MaxLines == 2
LineDocs ==
  UNION {{Join(f, <<LF>>) : f \in [1..k -> LineSamples]} : k \in 1..MaxLines}
PromoterOptions == {[DEFAULT_SETTINGS EXCEPT !.wrapBareMathSingleLines = TRUE]}

InitLines == InitWith(LineDocs, PromoterOptions)
SpecLines == InitLines /\ [][NextWrapLines]_vars

\* the conditions C9 lists for a line
ListedForPromotion(line) ==
  LET t == trim(line)
  IN /\ ~HasChar(line, {DOLLAR})
     /\ t # << >>
     /\ ~(\E k \in 1..HeadingMax :
            k < Len(t) /\ AllIn(t, 1, k, {"#"}) /\ t[k + 1] \in WhiteSpace)
     /\ ~IsBullet(t)
     /\ ~isHr(t)
     /\ t # DD
     /\ \/ HasChar(t, {"=", "^", "_"} \cup ArithOps)
        \/ \E i \in 1..(Len(t) - 1) : t[i] = BS /\ t[i + 1] \in Letters

\* the conditions the promoter adds to them: at most WordCap words, and no
\* $$ delimiter line directly before or after in the segment
FewWords(line) == CountWords(trim(line)) <= WordCap
NoDelimNeighbour(ls, i) ==
  /\ ~(i > 1 /\ trim(ls[i - 1]) = DD)
  /\ ~(i < Len(ls) /\ trim(ls[i + 1]) = DD)

\* outLines is inLines with exactly the lines of Promoted replaced by the
\* three lines $$, the line without its trailing whitespace, $$
PromotesExactly(inLines, outLines, Promoted) ==
  LET at(i) == i + 2 * Cardinality({j \in Promoted : j < i})
  IN /\ Len(outLines) = Len(inLines) + 2 * Cardinality(Promoted)
     /\ \A i \in 1..Len(inLines) :
          IF i \in Promoted
          THEN /\ outLines[at(i)] = DD
               /\ outLines[at(i) + 1] = trimEnd(inLines[i])
               /\ outLines[at(i) + 2] = DD
          ELSE outLines[at(i)] = inLines[i]

\* C9 as stated: a line of the segment is promoted to the three-line block
\* exactly when it has no $, is non-empty after trimming, is no heading,
\* bullet, horizontal rule or display delimiter line and has a math token.
PromotedWhenListed ==
  calls = 1 =>
    LET ls == SplitLines(orig)
    IN PromotesExactly(ls, SplitLines(text),
         {i \in 1..Len(ls) : ListedForPromotion(ls[i])})

\* C9, amended: a line of a segment given to wrapBareMathLines is promoted
\* to the three-line block ($$, the line without trailing whitespace, $$)
\* exactly when it meets the listed conditions, has at most four words
\* (runs of two or more letters between word boundaries) and neither the
\* line before it nor the line after it in the segment is a $$ line.
PromotedWhenEligible ==
  calls = 1 =>
    LET ls == SplitLines(orig)
    IN PromotesExactly(ls, SplitLines(text),
         {i \in 1..Len(ls) :
            /\ ListedForPromotion(ls[i])
            /\ FewWords(ls[i])
            /\ NoDelimNeighbour(ls, i)})

\* a promoted line above a line that has a math token and five words and
\* was left as it was
PromotedWhenEligibleWitness ==
  /\ calls = 1
  /\ orig = Str("  x = 1  \nwe see that the sum is a+b")
  /\ text = Str("$$\n  x = 1\n$$\nwe see that the sum is a+b")

(***************************************************************************)
(* Plain parentheses: the spans the guard rejects (C11) and the spans it   *)
(* converts (C12).                                                         *)
(***************************************************************************)
EnumCores == {Str("a"), Str("N"), Str("ii"), Str("IV"), Str("3"), Str("12")}
EnumTails == {<< >>, Str("."), Str(". a=b")}
EnumLabels == {c \o t : c \in EnumCores, t \in EnumTails}
KeywordRests == {Str(" section 2"), Str(" a=b")}
KeywordInners ==
  {w \o r : w \in SkipWords \cup {Str("See"), Str("NOTE")}, r \in KeywordRests}
\* inner texts that look LaTeX-like and are neither label nor keyword
MathInners == {Str("x^2 + 1"), Str("x - 1"), Str("x-1"), Str("a=b"), Str("x + 1")}
ParenInners == EnumLabels \cup KeywordInners \cup MathInners
ParenLeads == {<< >>, Str("so ")}
ParenTrails == {<< >>, Str(" now.")}
InnerPads == {<< >>, <<SP>>}
ParenDocs ==
  {pre \o Str("(") \o pad \o inner \o pad \o Str(")") \o post :
     pre \in ParenLeads, pad \in InnerPads, inner \in ParenInners,
     post \in ParenTrails}
ParenOptions == {o \in ConvertOptions : o.plainParensAsDelimiters}
ParensOnly == [DEFAULT_SETTINGS EXCEPT !.plainParensAsDelimiters = TRUE]

InitParens == InitWith(ParenDocs, ParenOptions)
SpecParens == InitParens /\ [][Next]_vars

\* the parenthesised span of a document of ParenDocs, and what stands
\* before it, inside it and after it
ParenOpenOf(doc) == IndexFrom(doc, Str("("), 1)
ParenCloseOf(doc) == Max({i \in 1..Len(doc) : doc[i] = ")"})
ParenSpanOf(doc) == Slice(doc, ParenOpenOf(doc), ParenCloseOf(doc))
ParenInnerOf(doc) == Slice(doc, ParenOpenOf(doc) + 1, ParenCloseOf(doc) - 1)
ParenLeadOf(doc) == Slice(doc, 1, ParenOpenOf(doc) - 1)
ParenTrailOf(doc) == From(doc, ParenCloseOf(doc) + 1)

\* C11: with plainParensAsDelimiters a parenthesised span whose trimmed
\* inner text is an enumeration label (a letter, a Roman numeral or digits,
\* alone or followed by punctuation) or begins with one of the words note,
\* notes, see, ref, fig, figure, table, section, chapter, appendix in any
\* case, stays as it is, even when the rest of the inner text is LaTeX-like.
RejectedSpanKept ==
  (calls = 1 /\ trim(ParenInnerOf(first)) \in EnumLabels \cup KeywordInners)
    => Contains(text, ParenSpanOf(first))

\* a keyword span with a LaTeX-like rest, inside a sentence, came back as
\* it went in
RejectedSpanKeptWitness ==
  /\ calls = 1
  /\ first = Str("so ( See a=b ) now.")
  /\ opts = ParensOnly
  /\ text = first

\* C12: with plainParensAsDelimiters (and the other optional stages off) a
\* parenthesised span whose trimmed inner text looks LaTeX-like and is
\* neither label nor keyword is replaced by $ + trim(inner) + $, (x^2 + 1)
\* and (x - 1) included.
MathSpanConverted ==
  (calls = 1 /\ opts = ParensOnly /\ trim(ParenInnerOf(first)) \in MathInners)
    => text = ParenLeadOf(first) \o Str("$") \o trim(ParenInnerOf(first))
                \o Str("$") \o ParenTrailOf(first)


(***************************************************************************)
(* Bracketed spans under plainBracketsAsDelimiters (C13): one bracket pair *)
(* in a line of prose.                                                     *)
(***************************************************************************)
ListPairs == {Str("a,b"), Str("1,2"), Str("x,y"), Str("a, b")}
BracketInners ==
  ListPairs \cup {Str("[a,b]"), Str("x_1"), Str("x^2 + 1"), Str("text")}
BracketLeads == {<< >>, Str("so "), Str("x = ")}
BracketTrails == {<< >>, Str(" now"), Str(".")}
BracketDocs ==
  {pre \o Str("[") \o inner \o Str("]") \o post :
     pre \in BracketLeads, inner \in BracketInners, post \in BracketTrails}
BracketsOn ==
  {o \in ConvertOptions :
     /\ o.plainBracketsAsDelimiters
     /\ ~o.convertBareInlineLatex
     /\ ~o.wrapBareMathSingleLines}
BracketsOnly == [DEFAULT_SETTINGS EXCEPT !.plainBracketsAsDelimiters = TRUE]

InitBrackets == InitWith(BracketDocs, BracketsOn)
SpecBrackets == InitBrackets /\ [][Next]_vars

\* C13: with plainBracketsAsDelimiters a pasted list-like pair of two
\* alphanumerics in brackets, [a,b], comes back as inline math that keeps
\* the brackets, $[a,b]$.
ListPairConverted ==
  \A pair \in ListPairs :
    (calls = 1 /\ first = Str("[") \o pair \o Str("]"))
      => text = Str("$[") \o pair \o Str("]$")

(***************************************************************************)
(* Bare inline tokens under convertBareInlineLatex (C14): one or two       *)
(* tokens in a line of prose, each followed by a delimiter or by the end   *)
(* of the text.  A token is listed with the inline math it stands for.     *)
(***************************************************************************)
Wrapped(token) == [src |-> token, out |-> Str("$") \o token \o Str("$")]
DegreeTokens ==
  {[src |-> Str("90^\\circ"), out |-> Str("$90^{\\circ}$")],
   [src |-> Str("5 ^ \\circ"), out |-> Str("$5^{\\circ}$")]}
SqrtTokens ==
  {Wrapped(Str("\\sqrt{4}")), Wrapped(Str("\\sqrt{x^2+1}")),
   Wrapped(Str("\\sqrt {ab}"))}
FracTokens ==
  {Wrapped(Str("\\frac{1}{2}")), Wrapped(Str("\\frac{a}{b+1}")),
   Wrapped(Str("\\frac{x^2+1}{2}"))}
SubSupTokens ==
  {Wrapped(Str("x_i")), Wrapped(Str("y^2")), Wrapped(Str("A_12"))}
BareTokens == DegreeTokens \cup SqrtTokens \cup FracTokens \cup SubSupTokens
BareLeads == {<< >>, Str("so ")}
BareSeps == {Str(", "), Str(" = ")}
BareEnds == {<< >>, Str(".")}
\* a document with the text the claim expects for it
BareCases ==
  {[doc |-> pre \o t.src \o post, want |-> pre \o t.out \o post] :
     pre \in BareLeads, t \in BareTokens, post \in BareEnds}
  \cup
  {[doc |-> t.src \o sep \o u.src, want |-> t.out \o sep \o u.out] :
     t \in BareTokens, sep \in BareSeps, u \in BareTokens}
BareDocs == {c.doc : c \in BareCases}
BareOptions ==
  {o \in ConvertOptions :
     /\ o.convertBareInlineLatex
     /\ ~o.wrapBareMathSingleLines
     /\ o.wrapMatrixEnvsInDisplayMath}

InitBare == InitWith(BareDocs, BareOptions)
SpecBare == InitBare /\ [][Next]_vars

\* C14: with convertBareInlineLatex a digit run followed by ^\circ becomes
\* $N^{\circ}$, and \sqrt{...}, \frac{...}{...} and a letter with a
\* subscript or superscript become the same token inside one pair of $,
\* each token wrapped exactly once and the text around them kept.
BareTokensWrappedOnce ==
  \A c \in BareCases : (calls = 1 /\ first = c.doc) => text = c.want

(***************************************************************************)
(* The plugin at work (C15): the editor holds a text and the clipboard     *)
(* another; the user pastes, pastes with conversion, converts the file or  *)
(* all files and flips toggles of the settings tab in any order, and the   *)
(* callbacks of the reads and writes run in between; seen records every    *)
(* call of convertKatexToMathJax with the settings record and the RegExp   *)
(* objects before and after it.                                            *)
(***************************************************************************)
EditorTexts == {Str("x_1")}
LoadedSettings == SettingsWith(TRUE, DEFAULT_SETTINGS)
InitPlugin == InitAll(EditorTexts, {LoadedSettings}, CopiedClips)
SpecPlugin == InitPlugin /\ [][NextPlugin]_vars

\* C15: convertKatexToMathJax is a function of its text and its options
\* alone: any two calls of a behaviour with equal text and equal options
\* returned equal texts, whatever calls were made before or between them
\* and whatever those had left behind; every call left the options record
\* as it found it; and no call left a RegExp object with a lastIndex other
\* than 0 for a later call to start from.
CallsArePure ==
  /\ \A e, f \in Calls :
       (e.input = f.input /\ e.opts = f.opts) => e.output = f.output
  /\ \A e \in Calls :
       /\ e.optsAfter = e.opts
       /\ \A site \in DOMAIN e.left : e.left[site].lastIndex = 0

\* a text was pasted and converted; then a link and the first text again
\* were copied and pasted with conversion, and the two reads of the
\* clipboard resolved in that order: the link matched the test of line 118
\* and came back as it was, and the first text came out as before
CallsArePureWitness ==
  \E e, g, f \in Calls :
    /\ e.nth = 1 /\ g.nth = 2 /\ f.nth = 3
    /\ \E p \in PasteEvents : p.nth = 1 /\ p.prevented
    /\ e.input = f.input /\ e.opts = f.opts
    /\ isMarkdownLink(trim(g.input)) /\ g.output = g.input
    /\ e.output # e.input
    /\ f.output = e.output
    /\ f.held = g.left
    /\ pending = << >>

(***************************************************************************)
(* The two spellings of a display block on lines of its own (C16): the     *)
(* same body between [ and ] and between \[ and \], handed to processMath. *)
(***************************************************************************)
BracketBodies ==
  {Str("x"), Str(" a = b "), Str("a\nb"), Str("x^2"), Str("\\frac{1}{2}"),
   Str("a + b\n= c")}
LineForm(body) == Str("[\n") \o body \o Str("\n]")
EscapedForm(body) == Str("\\[\n") \o body \o Str("\n\\]")
LineBracketDocs ==
  {LineForm(b) : b \in BracketBodies} \cup {EscapedForm(b) : b \in BracketBodies}
\* the display block the escaped form is rewritten to
DisplayBlockOf(body) == Str("\n$$\n") \o trim(body) \o Str("\n$$\n")

InitLineBracket == InitWith(LineBracketDocs, ConvertOptions)
SpecLineBracket == InitLineBracket /\ [][NextProcessMath]_vars

\* C16: whatever the options, processMath rewrites a body between [ and ]
\* on lines of their own to the same text as the same body between \[ and
\* \]: a newline, $$, a newline, the trimmed body, a newline, $$, a newline.
LineBracketLikeEscaped ==
  \A b \in BracketBodies :
    (calls = 1 /\ first \in {LineForm(b), EscapedForm(b)})
      => text = DisplayBlockOf(b)

(***************************************************************************)
(* Environments that already stand inside display math (C17): between a   *)
(* $$ line above and a $$ line below, as a conversion leaves them, or      *)
(* between $$ and $$ on one line.                                          *)
(***************************************************************************)
BlockOfEnv(env) == Str("$$\n") \o env \o Str("\n$$")
SpanOfEnv(env) == Str("$$ ") \o env \o Str(" $$")
InsideLeads == {<< >>, Str("x\n")}
InsideTrails == {<< >>, Str("\ny")}
InsideDocs ==
  {pre \o w \o post :
     pre \in InsideLeads,
     w \in {BlockOfEnv(env) : env \in EnvSamples}
             \cup {SpanOfEnv(env) : env \in EnvSamples},
     post \in InsideTrails}
WrapEnvsOn == {o \in ConvertOptions : o.wrapMatrixEnvsInDisplayMath}

InitInside == InitWith(InsideDocs, WrapEnvsOn)
SpecInside == InitInside /\ [][Next]_vars

\* the number of $$ delimiters of a text, counted from left to right
DelimCount(s) ==
  LET RECURSIVE Go(_)
      Go(pos) ==
        LET k == IndexFrom(s, Str("$$"), pos)
        IN IF k = 0 THEN 0 ELSE 1 + Go(k + 2)
  IN Go(1)

\* C17: with wrapMatrixEnvsInDisplayMath an environment that is already
\* inside display math, in particular between a $$ line above and a $$
\* line below, is not wrapped again: the conversion adds no $$ delimiter.
EnvInsideNotRewrapped ==
  (calls = 1 /\ opts.wrapMatrixEnvsInDisplayMath)
    => DelimCount(text) = DelimCount(first)

(***************************************************************************)
(* Mathy lines next to display delimiters (C18): a line the promoter would *)
(* take stands directly below or directly above a $$ line that is already  *)
(* in the text, the delimiter being alone or part of a complete block.     *)
(***************************************************************************)
MathyLines == {Str("x = 1"), Str("a^2 + b^2"), Str("E = mc^2")}
ExistingBlocks == {Str("$$\na\n$$"), Str("$$\nb\nc\n$$")}
LoneDelims == {Str("$$")}
NeighbourLeads == {<< >>, Str("t\n")}
NeighbourTrails == {<< >>, Str("\nt")}
\* a document with its mathy line
NeighbourCases ==
  {[doc |-> pre \o d \o Str("\n") \o m \o post, line |-> m] :
     pre \in NeighbourLeads, d \in ExistingBlocks \cup LoneDelims,
     m \in MathyLines, post \in NeighbourTrails}
  \cup
  {[doc |-> pre \o m \o Str("\n") \o d \o post, line |-> m] :
     pre \in NeighbourLeads, d \in ExistingBlocks \cup LoneDelims,
     m \in MathyLines, post \in NeighbourTrails}
NeighbourDocs == {c.doc : c \in NeighbourCases}
PromoterOn ==
  {o \in ConvertOptions :
     o.wrapBareMathSingleLines /\ ~o.convertBareInlineLatex}

InitNeighbour == InitWith(NeighbourDocs, PromoterOn)
SpecNeighbour == InitNeighbour /\ [][Next]_vars

PromotedLine(m) == Str("$$\n") \o m \o Str("\n$$")

\* C18: with wrapBareMathSingleLines a mathy line directly below or
\* directly above a $$ line of the text is not promoted, whether that $$
\* line stands alone or opens or closes a complete $$...$$ block.
NeighbourNotPromoted ==
  \A c \in NeighbourCases :
    (calls = 1 /\ first = c.doc) => ~Contains(text, PromotedLine(c.line))

(***************************************************************************)
(* The word cap of the promoter (C19): one line of up to MaxWords words    *)
(* drawn from five, followed by a math token.                              *)
(***************************************************************************)
MaxWords == 5
WordPool == {Str("to"), Str("ab"), Str("cd"), Str("ef"), Str("gh")}
WordRows == UNION {[1..k -> WordPool] : k \in 0..MaxWords}
WordDocs == {Join(row, <<SP>>) \o Str(" = 1") : row \in WordRows}

InitWords == InitWith(WordDocs, PromoterOptions)
SpecWords == InitWords /\ [][NextWrapLines]_vars

\* the distinct alphabetic words of two letters or more of a line
DistinctWords(t) ==
  {Slice(t, i, SkipClass(t, i, Letters) - 1) :
     i \in {j \in 1..Len(t) :
              /\ t[j] \in Letters
              /\ WordBoundary(t, j)
              /\ SkipClass(t, j, Letters) - j >= 2}}

\* C19: the word cap counts distinct words: a line with a math token is
\* promoted exactly when it has at most 4 distinct alphabetic words of two
\* letters or more, however often a word is repeated.
DistinctWordCap ==
  calls = 1 =>
    /\ (text = PromotedLine(first)) <=> (Cardinality(DistinctWords(first)) <= WordCap)
    /\ (text = first) <=> (Cardinality(DistinctWords(first)) > WordCap)

(***************************************************************************)
(* A single letter in parentheses (C20), in contexts that are mathy (an    *)
(* =, _ or ^ nearby, a mathematical noun nearby, an ordinal or positional  *)
(* word right after) and in contexts that are not.                         *)
(***************************************************************************)
SingleLetters == {Str("n"), Str("k"), Str("x"), Str("A")}
MathyLeads == {Str("x = "), Str("the matrix "), Str("a_1 ")}
PlainLeads == {<< >>, Str("so item ")}
MathyTrails == {Str(" = 2"), Str("th term"), Str(" degree")}
PlainTrails == {<< >>, Str(" here")}
\* a document with the text the claim expects for it
LetterCases ==
  {[doc |-> pre \o Str("(") \o l \o Str(")") \o post,
    want |-> IF pre \in MathyLeads \/ post \in MathyTrails
             THEN pre \o Str("$") \o l \o Str("$") \o post
             ELSE pre \o Str("(") \o l \o Str(")") \o post] :
     pre \in MathyLeads \cup PlainLeads, l \in SingleLetters,
     post \in MathyTrails \cup PlainTrails}
LetterDocs == {c.doc : c \in LetterCases}

InitLetter == InitWith(LetterDocs, ParenOptions)
SpecLetter == InitLetter /\ [][Next]_vars

\* C20: with plainParensAsDelimiters (and the other optional stages off) a
\* single letter in parentheses becomes $letter$ when the text around it is
\* mathy, and stays as it is when the text around it is not.
SingleLetterByContext ==
  \A c \in LetterCases :
    (calls = 1 /\ opts = ParensOnly /\ first = c.doc) => text = c.want

(***************************************************************************)
(* convertOutermostInline on its own (C21): texts of balanced and          *)
(* unbalanced parentheses and brackets, with the parenthesis guard and     *)
(* with the bracket guard.                                                 *)
(***************************************************************************)
DelimPairs ==
  {[open |-> "(", close |-> ")", guard |-> "parens"],
   [open |-> "[", close |-> "]", guard |-> "brackets"]}

\* convertOutermostInline(text, openCh, closeCh, guard) as convertInlineDelims
\* calls it, with either pair of delimiters
OutermostInline ==
  /\ calls < MaxCalls
  /\ UNCHANGED <<opts, first, host, regexps>>
  /\ \E pair \in DelimPairs :
       /\ text' = convertOutermostInline(text, pair.open, pair.close, pair.guard)
       /\ seen' = seen \cup {[nth |-> calls + 1, input |-> text, pair |-> pair,
                              output |-> text']}
  /\ orig' = text
  /\ calls' = calls + 1

NextOutermost == OutermostInline

MaxSpanPieces == 3
SpanPieces ==
  {Str("("), Str(")"), Str("["), Str("( a )"), Str("( x^2 )"), Str("[ x^2 ]"),
   Str(" b ")}
SpanDocs == TokenTexts(SpanPieces, MaxSpanPieces)

InitOutermost == InitWith(SpanDocs, {DEFAULT_SETTINGS})
SpecOutermost == InitOutermost /\ [][NextOutermost]_vars

\* the nesting depth after each character of t, a closing delimiter at
\* depth zero being no delimiter at all
DepthsOf(t, pair) ==
  LET d[i \in 0..Len(t)] ==
        IF i = 0 THEN 0
        ELSE IF t[i] = pair.open THEN d[i - 1] + 1
        ELSE IF t[i] = pair.close /\ d[i - 1] > 0 THEN d[i - 1] - 1
        ELSE d[i - 1]
  IN d

\* the outermost spans of t: an opening delimiter at depth zero and the
\* first closing delimiter that returns to depth zero
OutermostSpans(t, pair) ==
  LET d == DepthsOf(t, pair)
  IN {sp \in (1..Len(t)) \X (1..Len(t)) :
        /\ sp[1] < sp[2]
        /\ t[sp[1]] = pair.open /\ d[sp[1] - 1] = 0
        /\ t[sp[2]] = pair.close /\ d[sp[2]] = 0
        /\ \A j \in sp[1]..(sp[2] - 1) : d[j] > 0}

\* the guard's verdict on a span, asked as the loop asks it
SpanAccepted(t, pair, sp) ==
  Guard(pair.guard, trim(Slice(t, sp[1] + 1, sp[2] - 1)),
        Slice(t, Max({1, sp[1] - ContextChars}), sp[1] - 1),
        Slice(t, sp[2] + 1, Min({Len(t), sp[2] + ContextChars})),
        Slice(t, sp[1], sp[2]))

\* t with every accepted outermost span replaced by $ + trim(inner) + $ and
\* every other character kept
AcceptedRewritten(t, pair) ==
  LET spans == OutermostSpans(t, pair)
      RECURSIVE Go(_)
      Go(pos) ==
        LET rest == {sp \in spans : sp[1] >= pos}
        IN IF rest = {} THEN From(t, pos)
           ELSE LET sp == CHOOSE x \in rest : \A y \in rest : x[1] <= y[1]
                IN Slice(t, pos, sp[1] - 1)
                   \o (IF SpanAccepted(t, pair, sp)
                       THEN Str("$") \o trim(Slice(t, sp[1] + 1, sp[2] - 1)) \o Str("$")
                       ELSE Slice(t, sp[1], sp[2]))
                   \o Go(sp[2] + 1)
  IN Go(1)

\* C21: convertOutermostInline changes accepted outermost spans only: all
\* other characters, rejected spans with their delimiters and inner
\* whitespace, and unbalanced delimiters come out as they went in and in
\* order; when no span is accepted the output is the input.
OnlyAcceptedSpansChange ==
  \A e \in seen :
    /\ e.output = AcceptedRewritten(e.input, e.pair)
    /\ (\A sp \in OutermostSpans(e.input, e.pair) :
          ~SpanAccepted(e.input, e.pair, sp)) => e.output = e.input

\* a rejected span with blanks inside, an accepted span and a closing
\* parenthesis without partner went through the parenthesis pass
OnlyAcceptedSpansChangeWitness ==
  \E e \in seen :
    /\ e.pair.guard = "parens"
    /\ e.input = Str("( a )( x^2 ))")
    /\ e.output = Str("( a )$x^2$)")

(***************************************************************************)
(* Implicit delimiters met twice (C22): a parenthesised or bracketed       *)
(* formula that stands inside brackets, inside parentheses or inside an    *)
(* inline span, with at least one implicit pass switched on.               *)
(***************************************************************************)
NestedInners == {Str("(x^2)"), Str("[x^2]"), Str("(a=b)")}
ReentryLeads == {<< >>, Str("so ")}
ReentryTrails == {<< >>, Str(" now")}
\* a document; span is the inline span that holds the formula before the
\* implicit passes run, where there is one
ReentryCases ==
  {[doc |-> pre \o w[1] \o in \o w[2] \o post,
    span |-> IF w[3] THEN Str("$") \o in \o Str("$") ELSE << >>] :
     pre \in ReentryLeads, in \in NestedInners, post \in ReentryTrails,
     w \in {<<Str("["), Str("]"), FALSE>>, <<Str("("), Str(")"), FALSE>>,
            <<Str("$"), Str("$"), TRUE>>, <<Str("\\("), Str("\\)"), TRUE>>,
            <<Str("a "), Str(" b"), FALSE>>}}
ReentryDocs == {c.doc : c \in ReentryCases}
ImplicitOn ==
  {o \in ConvertOptions :
     /\ o.plainParensAsDelimiters \/ o.plainBracketsAsDelimiters
     /\ ~o.convertBareInlineLatex
     /\ ~o.wrapBareMathSingleLines}

InitReentry == InitWith(ReentryDocs, ImplicitOn)
SpecReentry == InitReentry /\ [][Next]_vars

\* C22: the implicit passes do not come back to what is already inline
\* math: no span is wrapped twice (the output of these documents holds no
\* $$), and a formula inside an inline span, written $...$ or \(...\),
\* keeps its parentheses or brackets.
NoSecondWrapping ==
  \A c \in ReentryCases :
    (calls = 1 /\ first = c.doc)
      => /\ ~Contains(text, DD)
         /\ c.span # << >> => Contains(text, c.span)

(***************************************************************************)
(* Bare tokens inside math that is already delimited (C23): an inline      *)
(* span of the input that holds tokens the bare-token pass looks for, and  *)
(* a bare \sqrt or \frac whose argument holds such a token.                *)
(***************************************************************************)
SpanBodies ==
  {Str("a^2 + b^2 = c"), Str("x_i"), Str("x_i + 1"), Str("\\sqrt{4} + 1"),
   Str(" \\frac{1}{2} "), Str("a = 90^\\circ"), Str("1, x_1, 2")}
NestingTokens == {Str("\\sqrt{a^2+b^2}"), Str("\\frac{x_1+1}{2}")}
InSpanLeads == {<< >>, Str("so "), Str("y^2, ")}
InSpanTrails == {<< >>, Str(" now"), Str(", y^2")}
\* a document with the inline span that must be found in the output
InSpanCases ==
  {[doc |-> pre \o Str("$") \o b \o Str("$") \o post,
    span |-> Str("$") \o b \o Str("$")] :
     pre \in InSpanLeads, b \in SpanBodies, post \in InSpanTrails}
  \cup
  {[doc |-> pre \o t \o post, span |-> Str("$") \o t \o Str("$")] :
     pre \in InSpanLeads, t \in NestingTokens, post \in InSpanTrails}
InSpanDocs == {c.doc : c \in InSpanCases}
BareOnly ==
  {o \in ConvertOptions :
     /\ o.convertBareInlineLatex
     /\ ~o.wrapBareMathSingleLines
     /\ ~o.plainParensAsDelimiters
     /\ ~o.plainBracketsAsDelimiters}

InitInSpan == InitWith(InSpanDocs, BareOnly)
SpecInSpan == InitInSpan /\ [][Next]_vars

\* C23: with convertBareInlineLatex no $ is put inside math that is already
\* delimited: an inline span of the input is found unchanged in the output,
\* and a \sqrt or \frac that the pass wraps keeps its argument as it was.
DelimitedMathKept ==
  \A c \in InSpanCases :
    (calls = 1 /\ first = c.doc) => Contains(text, c.span)

(***************************************************************************)
(* The whitespace normalizer on its own (C24): a display block with blank  *)
(* lines before it, after it and inside its body, indented or not.         *)
(***************************************************************************)
\* trimEmptyLinesAroundBlockMath(out.join("")), the last step of a call
TrimEmptyLines ==
  /\ calls < MaxCalls
  /\ text' = trimEmptyLinesAroundBlockMath(text)
  /\ orig' = text
  /\ calls' = calls + 1
  /\ UNCHANGED <<opts, first, seen, host, regexps>>

NextTrim == TrimEmptyLines

MaxBlankLines == 2
BlankLines(k) == [i \in 1..k |-> << >>]
\* the lines before and after the block; there is always one, so that
\* the blank lines stand between two lines of the text
TrimLeads == {<<Str("a")>>, <<Str("a = b")>>}
TrimTrails == {<<Str("b")>>, <<Str("  b")>>}
TrimIndents == {<< >>, Str("  ")}
\* the lines of a body; an empty first or last line is a blank line of the
\* body next to a delimiter
TrimBodies ==
  {<<Str("x")>>, <<Str("x"), << >>, Str("y")>>, << Str("x"), << >> >>,
   << << >>, Str("x") >>}
\* a document with what is left of it when one blank line before the block
\* and one blank line after it are taken away
TrimCases ==
  {[doc  |-> Join(pre \o BlankLines(kb) \o <<ind \o DD>> \o body
                    \o <<ind \o DD>> \o BlankLines(ka) \o post, <<LF>>),
    want |-> Join(pre \o BlankLines(Max({kb - 1, 0})) \o <<ind \o DD>> \o body
                    \o <<ind \o DD>> \o BlankLines(Max({ka - 1, 0})) \o post,
                  <<LF>>)] :
     pre \in TrimLeads, ind \in TrimIndents, body \in TrimBodies,
     post \in TrimTrails,
     kb \in 0..MaxBlankLines, ka \in 0..MaxBlankLines}
TrimDocs == {c.doc : c \in TrimCases}

InitTrim == InitWith(TrimDocs, {DEFAULT_SETTINGS})
SpecTrim == InitTrim /\ [][NextTrim]_vars

\* C24: the whitespace normalizer takes away one blank line right before a
\* display block and one right after it and changes nothing else: blank
\* lines of the body and the indentation of the $$ lines stay.
OneBlankLineRemoved ==
  \A c \in TrimCases : (calls = 1 /\ first = c.doc) => text = c.want

(***************************************************************************)
(* A display delimiter that is never closed (C25): a $$ line or a $$ at    *)
(* the head of a line of text, followed to the end of the text by prose    *)
(* that the parenthesis pass and the bare-token pass would convert.        *)
(***************************************************************************)
UnclosedLeads == {<< >>, Str("t\n")}
UnclosedOpeners == {Str("$$\n"), Str("  $$\n"), Str("$$ a "), Str("$$ ")}
\* prose with what the implicit passes make of it outside display math
UnclosedRests ==
  {[src |-> Str("(x^2)"), out |-> Str("$x^2$")],
   [src |-> Str("y_1, z"), out |-> Str("$y_1$, z")],
   [src |-> Str("(a=b) c"), out |-> Str("$a=b$ c")],
   [src |-> Str("so (x^2)\nand y_1."), out |-> Str("so $x^2$\nand $y_1$.")]}
UnclosedCases ==
  {[doc |-> pre \o op \o r.src, want |-> pre \o op \o r.out] :
     pre \in UnclosedLeads, op \in UnclosedOpeners, r \in UnclosedRests}
UnclosedDocs == {c.doc : c \in UnclosedCases}
ImplicitAndBare ==
  {o \in ConvertOptions :
     /\ o.plainParensAsDelimiters
     /\ o.convertBareInlineLatex
     /\ ~o.wrapBareMathSingleLines}

InitUnclosed == InitWith(UnclosedDocs, ImplicitAndBare)
SpecUnclosed == InitUnclosed /\ [][Next]_vars

\* C25: a $$ that is never closed, a delimiter line or a $$ followed by
\* text on its line, opens no display region: the text after it is outside
\* text, converted by the parenthesis pass and the bare-token pass, and
\* nothing of it is lost.
UnclosedIsOutside ==
  \A c \in UnclosedCases : (calls = 1 /\ first = c.doc) => text = c.want

(***************************************************************************)
(* Fences without a partner (C26): texts of fences, an inline formula in   *)
(* escaped parentheses and prose, with an even or an odd number of fences. *)
(***************************************************************************)
MaxOpenFencePieces == 5
EscapedInline == Str("\\(x\\)")
OpenFencePieces == {Fence, EscapedInline, Str(" b ")}
OpenFenceRows == UNION {[1..k -> OpenFencePieces] : k \in 0..MaxOpenFencePieces}
FencesBefore(row, i) == Cardinality({j \in 1..(i - 1) : row[j] = Fence})
\* piece i of a row is code when it stands between an opening fence and
\* the fence that closes it
InClosedFence(row, i) ==
  /\ row[i] # Fence
  /\ FencesBefore(row, i) % 2 = 1
  /\ \E j \in (i + 1)..Len(row) : row[j] = Fence
\* a row of pieces as a document, with the document in which every formula
\* outside code is converted
OpenFenceCases ==
  {[doc  |-> Concat(row),
    want |-> Concat([i \in 1..Len(row) |->
                       IF row[i] = EscapedInline /\ ~InClosedFence(row, i)
                       THEN Str("$x$") ELSE row[i]]),
    odd  |-> FencesBefore(row, Len(row) + 1) % 2 = 1] : row \in OpenFenceRows}
OpenFenceDocs == {c.doc : c \in OpenFenceCases}

InitOpenFence == InitWith(OpenFenceDocs, {DEFAULT_SETTINGS})
SpecOpenFence == InitOpenFence /\ [][Next]_vars

\* C26: a last fence without a closing fence opens no code segment: the
\* text after it is prose, so a formula after it is converted like every
\* formula outside the closed fences, and the fence itself stays.
OpenFenceIsProse ==
  \A c \in OpenFenceCases :
    (calls = 1 /\ first = c.doc /\ c.odd) => text = c.want

\* a formula in a closed fence was kept, and the formula after the fence
\* that follows and is never closed was converted
OpenFenceIsProseWitness ==
  /\ calls = 1
  /\ first = Fence \o EscapedInline \o Fence \o Fence \o EscapedInline
  /\ text = Fence \o EscapedInline \o Fence \o Fence \o Str("$x$")

(***************************************************************************)
(* Texts that only begin like a link (C27): a Markdown link, a URL glued   *)
(* to a link or a URL, followed by prose with an inline formula.           *)
(***************************************************************************)
LinkHeads == {Str("[a](b)"), Str("https://a.b[t](u)"), Str("https://a.b")}
ProseTails ==
  {Str(" and \\(x\\) (c)"), Str(" then \\(x\\)"), Str(" \\(x\\) now"),
   Str("\n\\(x\\)")}
HeadedDocs == {h \o t : h \in LinkHeads, t \in ProseTails}

InitHeaded == InitWith(HeadedDocs, ConvertOptions)
SpecHeaded == InitHeaded /\ [][Next]_vars

\* C27: a text that begins with a link, with a URL and a link or with a
\* URL and goes on with other text is not returned as it is: it goes
\* through the pipeline, and its \(x\) comes back as $x$.
HeadedTextConverted ==
  (calls = 1 /\ first \in HeadedDocs)
    => /\ Contains(text, Str("$x$"))
       /\ ~Contains(text, EscapedInline)

(***************************************************************************)
(* segmentByDisplayMath and applyOutsideDisplay on their own (C28): texts  *)
(* of $$, newlines, blanks and a letter, cut into chunks and put together  *)
(* again with a transform that keeps the outside chunks or erases them.    *)
(***************************************************************************)
SegmentTransforms == {"identity", "erase"}
TransformBy(name, chunk) == IF name = "identity" THEN chunk ELSE << >>

\* applyOutsideDisplay(text, fn) as processMath calls it; the chunks of the
\* text are recorded with the call
ApplyOutside ==
  /\ calls < MaxCalls
  /\ UNCHANGED <<opts, first, host, regexps>>
  /\ \E tr \in SegmentTransforms :
       /\ text' = applyOutsideDisplay(text, LAMBDA chunk : TransformBy(tr, chunk))
       /\ seen' = seen \cup {[nth |-> calls + 1, input |-> text, transform |-> tr,
                              parts |-> segmentByDisplayMath(text),
                              output |-> text']}
  /\ orig' = text
  /\ calls' = calls + 1

NextSegment == ApplyOutside

MaxSegmentPieces == 5
SegmentPieces == {DD, <<LF>>, Str("a"), <<SP>>}
SegmentDocs ==
  TokenTexts(SegmentPieces, MaxSegmentPieces)
    \cup {Str("$$\r\na\r\n$$\r\n"), Str("a\r$$\ra"), Str("$$ \r\n a$$")}

InitSegment == InitWith(SegmentDocs, {DEFAULT_SETTINGS})
SpecSegment == InitSegment /\ [][NextSegment]_vars

ChunksOf(parts) == Concat([k \in 1..Len(parts) |-> parts[k].chunk])
InsideChunksOf(parts) ==
  Concat([k \in 1..Len(parts) |->
            IF parts[k].inside THEN parts[k].chunk ELSE << >>])

\* C28: the chunks of segmentByDisplayMath, put together in order, are the
\* text; applyOutsideDisplay with the identity gives back its input, and
\* with any transform gives back the inside chunks as they were.
ChunksPartitionText ==
  \A e \in seen :
    /\ ChunksOf(e.parts) = e.input
    /\ e.transform = "identity" => e.output = e.input
    /\ e.transform = "erase" => e.output = InsideChunksOf(e.parts)

\* a same-line span, a blank and a $$ that is never closed were cut into
\* three chunks, and only the span was inside
ChunksPartitionTextWitness ==
  \E e \in seen :
    /\ e.transform = "erase"
    /\ e.input = Str("$$a$$ $$")
    /\ Len(e.parts) = 3
    /\ e.output = Str("$$a$$")

(***************************************************************************)
(* The promoter and the lines it leaves alone (C29): lines of prose and of *)
(* math, each ended by a line feed or by a carriage return and a line      *)
(* feed, handed to wrapBareMathLines.                                      *)
(***************************************************************************)
MaxEndedLines == 2
EndedLines == {Str("a"), Str("x = 1"), Str("some text"), << >>}
LineEnds == {Str("\n"), Str("\r\n")}
\* rows of lines with their terminators, and a last line without one
EndedRows ==
  UNION {[1..k -> [line : EndedLines, end : LineEnds]] : k \in 0..MaxEndedLines}
EndedCases ==
  {[doc  |-> Concat([i \in 1..Len(row) |-> row[i].line \o row[i].end]) \o last,
    kept |-> {row[i].line \o row[i].end :
                i \in {j \in 1..Len(row) : ~isMathLine(row[j].line)}},
    idle |-> ~isMathLine(last) /\ \A i \in 1..Len(row) : ~isMathLine(row[i].line)] :
     row \in EndedRows, last \in EndedLines}
EndedDocs == {c.doc : c \in EndedCases}

InitEnded == InitWith(EndedDocs, PromoterOptions)
SpecEnded == InitEnded /\ [][NextWrapLines]_vars

\* C29: the promoter changes the lines it promotes and nothing else: a
\* line it does not promote comes out with its own terminator, \r\n
\* staying \r\n, and a segment without an eligible line comes out as it
\* went in.
UnpromotedLinesKept ==
  \A c \in EndedCases :
    (calls = 1 /\ first = c.doc)
      => /\ \A l \in c.kept : Contains(text, l)
         /\ c.idle => text = first

(***************************************************************************)
(* The editor-paste handler (C30): the settings record of the plugin with  *)
(* its enableDefaultPasteConversion flag, clipboard texts that are empty,  *)
(* blank, a URL, a link, a URL glued to a link, text with math, or text    *)
(* with math that starts with a link or with a URL glued to a link, and    *)
(* the toggle of the settings tab that switches the default conversion.    *)
(***************************************************************************)
PluginSettings ==
  {SettingsWith(b, o) : b \in BOOLEAN, o \in {DEFAULT_SETTINGS, ParensOnly}}

\* clipboard texts; blob tells whether the trimmed text is a URL, a link or
\* a URL glued to a link and nothing else
PasteClips ==
  {[clip |-> << >>, blob |-> FALSE],
   [clip |-> Str("  "), blob |-> FALSE],
   [clip |-> Str("https://a.b/c_1"), blob |-> TRUE],
   [clip |-> Str(" https://a.b/c_1\n"), blob |-> TRUE],
   [clip |-> Str("[\\(a\\)](u)"), blob |-> TRUE],
   [clip |-> Str("https://a.b[t](u)"), blob |-> TRUE],
   [clip |-> Str("see https://a.b \\(x\\)"), blob |-> FALSE],
   [clip |-> Str("\\(a\\) (x_1)"), blob |-> FALSE],
   [clip |-> Str("\\[x\\]"), blob |-> FALSE],
   [clip |-> Str("[a](b) and \\(x\\) (c)"), blob |-> FALSE],
   [clip |-> Str("https://a.b[t](u) then \\(x\\)"), blob |-> FALSE]}

InitEditor == InitAll({<< >>, Str("x_1")}, PluginSettings, PasteClips)
SpecEditor == InitEditor /\ [][NextEditor]_vars

\* C30: in a paste event the handler prevents the default paste and
\* replaces the selection by the converted clipboard text exactly when
\* enableDefaultPasteConversion is set, the clipboard text is not empty and
\* its trimmed text is no URL, link or URL and link blob; otherwise it does
\* neither; a prevented paste comes with exactly one replacement.
PasteHandledIff ==
  \A e \in PasteEvents :
    LET due == /\ e.settings.enableDefaultPasteConversion
               /\ e.clip # << >>
               /\ ~e.blob
    IN /\ e.prevented <=> due
       /\ e.replaced = (IF due THEN 1 ELSE 0)
       /\ due => e.written = convertKatexToMathJax(e.clip, e.settings)
       /\ e.prevented => e.replaced = 1
=============================================================================
